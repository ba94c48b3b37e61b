-------------------------------- MODULE Loops --------------------------------
(***************************************************************************)
(* One loop of entries, of any kind.  The generator opens it (it declares   *)
(* all the room there is), asks for the first entry that is free, fills it, *)
(* asks for the next, and closes the loop by declaring the place of the     *)
(* entry it did not fill.  Or the loop is received: any length, any bytes.  *)
(* Then X_validate walks it, and if it is good the entries are read one     *)
(* after the other, by number, until there is none.                         *)
(*                                                                         *)
(* Of the bytes, only the sizes the entries announce matter; those of a     *)
(* received loop are decided when first looked at.                          *)
(***************************************************************************)
EXTENDS LoopKinds, Sequences, FiniteSets

CONSTANTS
  NumberWidth, \* values of the number an entry is asked for by (uint8_t)
  MaxEntries,  \* bound: entries a loop has room for
  None

ASSUME LoopsAssumption ==
  NumberWidth \in Nat \ {0} /\ MaxEntries \in Nat /\ None \notin Nat

VARIABLES
  loop,   \* what loop this is
  phase,  \* where it stands
  ours,   \* it was written here
  length, \* the declared length, less what stands before the first entry
  sizes,  \* the size announced at each position looked at or written
  at,     \* the position of the walk, or the number asked for when reading
  count   \* entries written

loopVars == <<loop, phase, ours, length, sizes, at, count>>

LoopTypeOK ==
  /\ loop \in Kinds
  /\ phase \in {"nothing", "open", "adding", "closed", "checking", "accepted",
                "refused", "reading", "read"}
  /\ ours \in BOOLEAN
  /\ length \in Int
  /\ DOMAIN sizes \subseteq Nat /\ \A p \in DOMAIN sizes : sizes[p] \in Nat
  /\ at \in Nat /\ count \in 0 .. MaxEntries

-----------------------------------------------------------------------------
(* Reading: X_next_Y and X_get_Y. *)

(* The size of the entry at p: an entry of the one size announces none.     *)
Known(p) == p \in DOMAIN sizes \/ loop.sizes = {loop.head}
SizeAt(p) == IF p \in DOMAIN sizes THEN sizes[p] ELSE loop.head

(* Slip: only what the entry announces, not its fixed part. *)
StepAnnounced(who, s) ==
  IF who \in loop.bytes THEN (s - loop.head) % Width ELSE s - loop.head

(* How far one goes over an entry of size s. *)
Step(who, s) == IF who \in loop.bytes THEN s % Width ELSE s

(* desc_check, descs_next_desc, the tests at the end of the section walks. *)
Handed(p) == IF p + loop.room <= length THEN p ELSE None

After(p) ==
  IF Known(p) /\ p + loop.head <= length
    THEN Handed(p + Step("reader", SizeAt(p)))
    ELSE None

(* The place of the entries asked for by number; None past the last. *)
Entry(n) ==
  LET following == [p \in (0 .. length) \cup {None} |-> IF p = None THEN None ELSE After(p)]
      Place[i \in 0 .. n] == IF i = 0 THEN Handed(0) ELSE following[Place[i - 1]]
  IN  Place[n]

(* The entries there are, up to one more than may fit. *)
Present == {n \in 0 .. MaxEntries : Entry(n) # None}

(* Where the last of them ends, by the sizes the reader takes them to have. *)
ReadEnd ==
  IF Present = {} THEN 0
  ELSE LET p == Entry(Cardinality(Present) - 1) IN p + Step("reader", SizeAt(p))
Items(numbers) == [i \in {n + 1 : n \in numbers} |-> SizeAt(Entry(i - 1))]

(* A position whose size an operation looks at: known, or any. *)
Announced(p) == IF Known(p) THEN {SizeAt(p)} ELSE loop.sizes
Look(p, s) ==
  sizes' = [q \in DOMAIN sizes \cup {p} |-> IF q = p THEN s ELSE sizes[q]]

-----------------------------------------------------------------------------
(* Writing. *)

(* The lengths under test: what may lack, up to the most entries and a bit. *)
Lengths ==
  {n \in -loop.short .. MaxEntries * loop.head + loop.head - 1 :
     loop.inByte => n + loop.short < Width}

(* build_descX, generate_xxx: the structure is set up, and all the room      *)
(* there is declared as its length.                                         *)
Open ==
  /\ phase = "nothing"
  /\ length' \in Lengths
  /\ phase' = "open" /\ ours' = TRUE
  /\ UNCHANGED <<loop, sizes, at, count>>

(* X_get_Y(k++) and the setters of the entry, which fits (X_validate_Y).     *)
Add(s) ==
  LET p == Entry(count)
  IN  /\ phase = "open" /\ count < MaxEntries
      /\ p # None /\ p + s <= length
      /\ Look(p, s)
      /\ count' = count + 1
      /\ UNCHANGED <<loop, phase, ours, length, at>>

(* Slip: the loop ends where its last entry begins. *)
CloseShort ==
  /\ phase = "open" /\ count > 0 /\ Entry(count) # None
  /\ length' = Entry(count - 1)
  /\ phase' = "closed"
  /\ UNCHANGED <<loop, ours, sizes, at, count>>

(* X_get_Y(k) and the setter of the length. A loop without room for one more *)
(* entry cannot be closed this way: X_get_Y gives NULL.                      *)
Close ==
  /\ phase = "open" /\ Entry(count) # None
  /\ length' = Entry(count)
  /\ phase' = "closed"
  /\ UNCHANGED <<loop, ours, sizes, at, count>>

(* descs_add_desc: the list, if it is good, grows by the descriptor; its own *)
(* length is set from the length of the list, so that the size it announces  *)
(* has nothing to do with the one asked for.                                *)
AddDesc(s) ==
  /\ loop = descl_validate /\ phase = "closed"
  /\ ReadEnd = length
  /\ count < MaxEntries /\ length + s <= MaxEntries * loop.head + 1
  /\ Look(length, 2 + ((length - 2) % Width))
  /\ length' = length + s
  /\ at' = length
  /\ phase' = "adding"
  /\ UNCHANGED <<loop, ours, count>>

(* The caller sets up the descriptor it was given: X_init, desc_set_length.  *)
SetLength ==
  /\ phase = "adding"
  /\ sizes' = [sizes EXCEPT ![at] = length - at]
  /\ count' = count + 1
  /\ at' = 0 /\ phase' = "closed"
  /\ UNCHANGED <<loop, ours, length>>

-----------------------------------------------------------------------------
(* Validating. *)

(* A loop that comes from elsewhere. *)
ReceiveLoop ==
  /\ phase = "nothing" /\ loop.rule # "none"
  /\ length' \in Lengths
  /\ phase' = "checking" /\ ours' = FALSE
  /\ UNCHANGED <<loop, sizes, at, count>>

(* X_validate is called on what was written. *)
Check ==
  /\ phase = "closed" /\ loop.rule # "none"
  /\ phase' = "checking"
  /\ UNCHANGED <<loop, ours, length, sizes, at, count>>

(* Whether the walk goes over the entry at hand, of size s. *)
GoesOn(s) ==
  CASE loop.rule = "left" -> at < length
    [] loop.rule = "head" -> at + loop.head <= length
    [] loop.rule = "whole" -> at + loop.head <= length /\ at + s <= length
    [] OTHER -> FALSE

(* One turn of the loop of X_validate. *)
Advance ==
  /\ phase = "checking"
  /\ \E s \in Announced(at) :
       /\ GoesOn(s)
       /\ Look(at, s)
       /\ at' = at + Step("validator", s)
  /\ UNCHANGED <<loop, phase, ours, length, count>>

(* Slip: what is left over is not looked at. *)
EndsAnywhere == at <= length

(* What X_validate asks when its walk is over. *)
EndsWell ==
  IF loop.rule = "divides" THEN length % loop.head = 0 ELSE at = length

Stop ==
  /\ phase = "checking"
  /\ \E s \in Announced(at) : ~GoesOn(s)
  /\ phase' = IF EndsWell THEN "accepted" ELSE "refused"
  /\ at' = 0
  /\ UNCHANGED <<loop, ours, length, sizes, count>>

-----------------------------------------------------------------------------
(* while ((p = X_get_Y(p_x, j)) != NULL) j++ *)

StartReading ==
  /\ phase = "accepted"
  /\ phase' = "reading"
  /\ UNCHANGED <<loop, ours, length, sizes, at, count>>

NextNumber(j) == IF "number" \in loop.bytes THEN (j + 1) % NumberWidth ELSE j + 1

ReadEntry ==
  /\ phase = "reading" /\ Entry(at) # None
  /\ at' = NextNumber(at)
  /\ UNCHANGED <<loop, phase, ours, length, sizes, count>>

ReadOver ==
  /\ phase = "reading" /\ Entry(at) = None
  /\ phase' = "read"
  /\ UNCHANGED <<loop, ours, length, sizes, at, count>>

LoopInit ==
  /\ loop \in Kinds
  /\ phase = "nothing" /\ ours = FALSE
  /\ length = 0 /\ sizes = <<>> /\ at = 0 /\ count = 0

Validate == Advance \/ Stop
ReadOn == ReadEntry \/ ReadOver

LoopNext ==
  \/ Open \/ (\E s \in loop.sizes : Add(s)) \/ Close
  \/ (\E s \in {2, 3} : AddDesc(s)) \/ SetLength
  \/ ReceiveLoop \/ Check \/ Validate
  \/ StartReading \/ ReadOn

LoopSpec == LoopInit /\ [][LoopNext]_loopVars

(* A function that was called runs: the walks go on while they can. *)
FairLoopSpec == LoopSpec /\ WF_loopVars(Validate) /\ WF_loopVars(ReadOn)

-----------------------------------------------------------------------------
(* Properties. *)

(* A size that the validator cannot hold in its uint8_t. *)
Turned == "validator" \in loop.bytes /\ \E p \in DOMAIN sizes : sizes[p] >= Width

(* A loop the validator lets through is read to its end and not beyond: the  *)
(* reader, which has another test for an entry to be there and computes the  *)
(* sizes in another width, comes upon whole entries only, the last of which  *)
(* ends with the loop.  The exception are the sizes of 256 and more that the *)
(* validators of variable entries (desc45_validate and its like) turn into   *)
(* small ones.                                                              *)
AcceptedIsRead ==
  phase \in {"accepted", "reading", "read"} /\ ~Turned =>
    IF length <= 0 THEN Present = {} ELSE ReadEnd = length

(* The loop is a list: an entry that is written is appended and disturbs     *)
(* none before, closing the loop leaves exactly what was written to be read, *)
(* a descriptor added by descs_add_desc is appended whatever length it was   *)
(* first given, and X_validate never turns away what was written.            *)
TheList ==
  CASE phase \in {"open", "adding"} -> Items(0 .. count - 1)
    [] phase = "closed" \/ (phase = "checking" /\ ours) -> Items(Present)
    [] phase \in {"accepted", "reading", "read"} -> Items(Present)
    [] OTHER -> <<>>

ItsPhase ==
  CASE phase = "open" -> "open"
    [] phase \in {"adding", "closed", "accepted", "reading", "read"} -> "closed"
    [] phase = "checking" /\ ours -> "closed"
    [] OTHER -> "none"

List == INSTANCE EntryList WITH Entries <- Nat, list <- TheList, phase <- ItsPhase

ListSpec == List!Spec

(* Where it never ends: the validator has met an entry of 256 bytes and goes  *)
(* over it by none; or there are as many entries as numbers to ask for them.  *)
Stuck ==
  \/ phase = "checking" /\ at \in DOMAIN sizes
     /\ "validator" \in loop.bytes /\ sizes[at] % Width = 0
  \/ phase = "reading" /\ "number" \in loop.bytes /\ Entry(NumberWidth - 1) # None

(* Apart from these two, whatever bytes are received, every call of a         *)
(* validator and every loop over the entries comes to its end.                *)
WalkEnds == phase \in {"checking", "reading"} ~> phase \notin {"checking", "reading"} \/ Stuck
=============================================================================
