----------------------------- MODULE BatchSpec ------------------------------
(***************************************************************************)
(* What a batch encoder promises, whatever pool stands behind it: a call   *)
(* on a slice of images either returns the hashes of exactly those images, *)
(* in the order of the slice, or fails, and it fails only for a reason: an *)
(* item that does not validate, an image, of this call or of another one   *)
(* that shares the pool, on which the encoder itself crashes, or an        *)
(* encoder that was closed before the call was made.                       *)
(***************************************************************************)
EXTENDS Naturals, Sequences

CONSTANTS
  Calls,      \* calls of encode_batch, each made once
  Images,     \* what a caller can put in a slice
  Valid,      \* the images that pass the up-front validation
  Faulty,     \* valid images on which the encoder panics
  Batches,    \* the slices a caller can pass
  Encode      \* the hash of each image, as the one-image API computes it

VARIABLES
  open,       \* the encoder has not been closed
  status,     \* "new", "running", "returned" or "failed", for each call
  batch,      \* the slice of each call
  result      \* what each call returned

vars == <<open, status, batch, result>>

\* The items of a slice.
ItemsOf(b) == {b[i] : i \in DOMAIN b}

\* The slice fails validation.
HasInvalid(b) == ~ (ItemsOf(b) \subseteq Valid)

\* Encoding some item of a call made so far crashes its worker.
SomeFault ==
  \E c \in Calls : ~ HasInvalid(batch[c]) /\ ItemsOf(batch[c]) \cap Faulty # {}

Init ==
  /\ open = TRUE
  /\ status = [c \in Calls |-> "new"]
  /\ batch = [c \in Calls |-> <<>>]
  /\ result = [c \in Calls |-> <<>>]

Call(c, b) ==
  /\ status[c] = "new"
  /\ status' = [status EXCEPT ![c] = "running"]
  /\ batch' = [batch EXCEPT ![c] = b]
  /\ UNCHANGED <<open, result>>

Return(c) ==
  /\ status[c] = "running"
  /\ open
  /\ ~ HasInvalid(batch[c])
  /\ status' = [status EXCEPT ![c] = "returned"]
  /\ result' = [result EXCEPT ![c] = [i \in DOMAIN batch[c] |-> Encode[batch[c][i]]]]
  /\ UNCHANGED <<open, batch>>

Fail(c) ==
  /\ status[c] = "running"
  /\ HasInvalid(batch[c]) \/ SomeFault \/ ~ open
  /\ status' = [status EXCEPT ![c] = "failed"]
  /\ UNCHANGED <<open, batch, result>>

\* The owner closes the encoder, once no call is running.
Close ==
  /\ open
  /\ \A c \in Calls : status[c] # "running"
  /\ open' = FALSE
  /\ UNCHANGED <<status, batch, result>>

Next ==
  \/ Close
  \/ \E c \in Calls : (\E b \in Batches : Call(c, b)) \/ Return(c) \/ Fail(c)

Spec == Init /\ [][Next]_vars

\* A call that was made comes back: fairness of the pool behind it.
LiveSpec == Spec /\ \A c \in Calls : WF_vars(Return(c) \/ Fail(c))
=============================================================================
