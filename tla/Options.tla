------------------------------ MODULE Options ------------------------------
(***************************************************************************)
(* Rust's Option: a value that is not there.  The components that are      *)
(* composed in one module take None from here.                             *)
(***************************************************************************)

CONSTANT None   \* Option::None

=============================================================================
