---- MODULE MCOnboarding ----
(* A small instance of Onboarding for TLC. *)
EXTENDS Onboarding

\* With and without SIGNUP_TEST_MODE.
MCTestModes == {TRUE, FALSE}
====
