---------------------------- MODULE MCRequestBody ----------------------------
(***************************************************************************)
(* RequestBody on small streams: a buffer of four bytes, bodies on both    *)
(* sides of what fits the buffer and of what fits memory.                  *)
(***************************************************************************)
EXTENDS RequestBody

MCBodyLens == 0 .. 5

================================================================================
