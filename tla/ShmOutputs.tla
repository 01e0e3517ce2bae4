----------------------------- MODULE ShmOutputs -----------------------------
(****************************************************************************)
(* The output direction of the data plane: what becomes of the words that   *)
(* nekoecat_client_write_raw_at stores without a lock while mirrorToShm     *)
(* overlays them.  The steps are those of ShmMirror; history variables      *)
(* record which stores the mirror cannot miss.                              *)
(****************************************************************************)
EXTENDS ShmMirror

VARIABLES
  quiet,    \* the writer loaded active_buffer after the last flip, and no overlay
            \* has begun since
  expect,   \* value of the last store to the word if it was quiet, else 0
  due,      \* words whose expected value the overlay in progress must carry
  last,     \* value of the last store to the word
  age       \* frames sent since that store, up to 2

hist == <<quiet, expect, due, last, age>>

OInit ==
  /\ Init
  /\ quiet = [w \in Writers |-> FALSE] /\ due = {}
  /\ expect = [x \in Outputs |-> 0] /\ last = [x \in Outputs |-> 0]
  /\ age = [x \in Outputs |-> 0]

OBeginWrite(w) ==
  /\ BeginWrite(w)
  /\ quiet' = [quiet EXCEPT ![w] = dpc \notin {"overlay", "apply", "flip"}]
  /\ UNCHANGED <<expect, due, last, age>>

OPutWord(w, x) ==
  /\ PutWord(w, x)
  /\ expect' = [expect EXCEPT ![x] = IF quiet[w] THEN wval[w] ELSE 0]
  /\ due' = due \ {x}
  /\ last' = [last EXCEPT ![x] = wval[w]] /\ age' = [age EXCEPT ![x] = 0]
  /\ UNCHANGED quiet

OBeginOverlay ==
  /\ BeginOverlay
  /\ quiet' = [w \in Writers |-> FALSE]
  /\ due' = {x \in Outputs : expect[x] # 0}
  /\ UNCHANGED <<expect, last, age>>

OSend ==
  /\ Send
  /\ age' = [x \in Outputs |-> IF age[x] < 2 THEN age[x] + 1 ELSE 2]
  /\ UNCHANGED <<quiet, expect, due, last>>

OtherStep ==
  \/ Receive \/ ExitLoop \/ OverlayDomain \/ StampHeader \/ Flip \/ Bump
  \/ StopRequest \/ Stopping
  \/ \E x \in Words : CopyWord(x) \/ OverlayShm(x)
  \/ \E r \in Readers : ReaderStep(r)
  \/ \E w \in Writers : EndWrite(w)

ONext ==
  \/ OBeginOverlay \/ OSend
  \/ \E w \in Writers : OBeginWrite(w) \/ \E x \in Outputs : OPutWord(w, x)
  \/ OtherStep /\ UNCHANGED hist

OSpec == OInit /\ [][ONext]_<<vars, hist>>

-----------------------------------------------------------------------------
(* A store that the writer makes into the buffer it looked up, before the     *)
(* overlay begins, is on the bus with that cycle's frame and stays there      *)
(* until the next store to the word (mirrorToShm, step 2).                    *)
QuietWritesAreSent == dpc = "sleep" => \A x \in due : wire[x] = expect[x]

(* ... and it is in the buffer the clients will read and overlay next, so the *)
(* following cycle cannot bring an older value back.                          *)
QuietWritesAreKept ==
  dpc \in {"bump", "send", "sleep"} => \A x \in due : shmData[active_buffer][x] = expect[x]

(* Any store is on the bus once a whole cycle has run after it                *)
(* (nekoecat_client.c:477, "it self-corrects next cycle").                    *)
WritesSettle ==
  dpc = "sleep" /\ (\A w \in Writers : wpc[w] = "idle") =>
    \A x \in Outputs : age[x] = 2 /\ last[x] # 0 => wire[x] = last[x]

(* The bus never goes back to the value of an older write                     *)
(* (nekoecat_shm.h:150, "last-write-wins").                                   *)
NewestWriteWins == [][\A x \in Outputs : wire'[x] >= wire[x]]_wire
=============================================================================
