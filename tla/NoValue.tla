-------------------------------- MODULE NoValue --------------------------------
(* What every component means by the same names.                              *)
CONSTANTS
  None,      \* NULL: no row, no stamp, no owner
  Refused    \* a 4xx that proves that the request made nothing
=============================================================================
