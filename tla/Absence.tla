-------------------------------- MODULE Absence --------------------------------
(* The value of what is not there, shared by several parts. *)
CONSTANT None    \* a null pointer, an empty optional, no error
===============================================================================
