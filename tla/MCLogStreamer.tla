---------------------------- MODULE MCLogStreamer ----------------------------
(* Small instances of LogStreamer for TLC. *)
EXTENDS LogStreamer

AnyOutcome == {"ok", "retry", "drop"}

\* GroupMessageStorer.StoreLog answers "not implemented", retryable, to everything.
GroupMessageStorer == {"retry"}

=============================================================================
