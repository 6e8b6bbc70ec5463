------------------------ MODULE RegistryTransaction ------------------------
(***************************************************************************)
(* services/registry/RegistryTransaction: a registry port that journals    *)
(* the inverse of every change it lets through, so that a change of many   *)
(* operations either is in place or has left no trace.                     *)
(*                                                                         *)
(* An operation is two steps, the look that prepares its inverse and the   *)
(* change itself, since other programs write to the same registry at any   *)
(* time.  The registry below the port (WindowsRegistry, the operating      *)
(* system) may refuse any change, and an operation it refuses changes      *)
(* nothing.                                                                *)
(***************************************************************************)
EXTENDS Integers, Sequences, FiniteSets

CONSTANTS
  Key,      \* registry keys
  Name,     \* value names
  Value,    \* what a value may hold
  Opaque,   \* the values of a type that no snapshot can read (REG_BINARY)
  Levels,   \* Levels[k]: the keys on the path to k, k included
  None,     \* no such value
  Gone      \* no such key

Contents == [Name -> Value \cup {None}]
Empty == [n \in Name |-> None]

ASSUME KeyTree ==
  /\ Levels \in [Key -> SUBSET Key]
  /\ \A k \in Key : k \in Levels[k] /\ \A l \in Levels[k] : Levels[l] \subseteq Levels[k]
ASSUME Sentinels == None \notin Value /\ Gone \notin Contents /\ Opaque \subseteq Value

(* A key exists only below keys that exist. *)
Registries == {r \in [Key -> Contents \cup {Gone}] :
                 \A k \in Key : r[k] # Gone => \A l \in Levels[k] : r[l] # Gone}

VARIABLES
  reg,         \* the registry
  journal,     \* the inverses of the changes made, oldest first
  looked,      \* the operation under way, with the inverse prepared for it
  status,      \* of the transaction
  reversible,  \* fullyReversible: no security descriptor was changed
  failures,    \* the number of rollbackFailures
  before,      \* history: before[i] is the registry that journal[i] was made in,
               \* the last one the registry as this transaction left it
  foreign      \* history: keys that other programs changed meanwhile

txVars == <<reg, journal, looked, status, reversible, failures, before, foreign>>

Idle == [op |-> "none"]
Operations ==
  [op : {"write"}, key : Key, name : Name, value : Value]
    \cup [op : {"deleteValue"}, key : Key, name : Name]
    \cup [op : {"createKey", "deleteKey"}, key : Key]
Entries ==
  [kind : {"DeleteValue"}, key : Key, name : Name]
    \cup [kind : {"RestoreValue"}, key : Key, name : Name, value : Value]
    \cup [kind : {"DeleteKeys"}, keys : SUBSET Key]
    \cup [kind : {"RestoreKey"}, key : Key, values : Contents]
    \cup [kind : {"Nothing"}]

Closed == {"committed", "rolledBack"}
Start == before[1]

TxTypeOK ==
  /\ reg \in Registries
  /\ journal \in Seq(Entries)
  /\ looked \in {Idle} \cup [op : Operations, entry : Entries]
  /\ status \in {"open", "failed"} \cup Closed
  /\ reversible \in BOOLEAN
  /\ failures \in Nat
  /\ before \in Seq(Registries) /\ Len(before) = Len(journal) + 1
  /\ foreign \subseteq Key

----------------------------------------------------------------------------
(* Operations on a registry *)

HasValue(r, k, n) == r[k] # Gone /\ r[k][n] # None
HasSubkey(r, k) == \E d \in Key \ {k} : k \in Levels[d] /\ r[d] # Gone
keyEmpty(r, k) == r[k] = Empty /\ ~HasSubkey(r, k)

(* What the registry accepts unless it refuses for a reason of its own. *)
Accepts(r, o) ==
  CASE o.op = "write" -> r[o.key] # Gone
    [] o.op = "deleteValue" -> HasValue(r, o.key, o.name)
    [] o.op = "createKey" -> TRUE
    [] o.op = "deleteKey" -> r[o.key] # Gone /\ ~HasSubkey(r, o.key)

Applied(r, o) ==
  CASE o.op = "write" -> [r EXCEPT ![o.key][o.name] = o.value]
    [] o.op = "deleteValue" -> [r EXCEPT ![o.key][o.name] = None]
    [] o.op = "createKey" -> [k \in Key |-> IF k \in Levels[o.key] /\ r[k] = Gone
                                            THEN Empty ELSE r[k]]
    [] o.op = "deleteKey" -> [r EXCEPT ![o.key] = Gone]

(* snapshot: what would be displaced can be read back. *)
Readable(r, o) ==
  CASE o.op \in {"write", "deleteValue"} ->
         HasValue(r, o.key, o.name) => r[o.key][o.name] \notin Opaque
    [] o.op = "deleteKey" ->
         r[o.key] # Gone => \A n \in Name : r[o.key][n] \notin Opaque
    [] OTHER -> TRUE

(* The inverse that an operation prepares; Nothing where it is going to be *)
(* refused or changes nothing.                                             *)
EntryFor(r, o) ==
  CASE o.op \in {"write", "deleteValue"} /\ HasValue(r, o.key, o.name) ->
         [kind |-> "RestoreValue", key |-> o.key, name |-> o.name, value |-> r[o.key][o.name]]
    [] o.op = "write" /\ r[o.key] # Gone /\ ~HasValue(r, o.key, o.name) ->
         [kind |-> "DeleteValue", key |-> o.key, name |-> o.name]
    [] o.op = "createKey" /\ r[o.key] = Gone ->
         [kind |-> "DeleteKeys", keys |-> {l \in Levels[o.key] : r[l] = Gone}]
    [] o.op = "deleteKey" /\ r[o.key] # Gone ->
         [kind |-> "RestoreKey", key |-> o.key, values |-> r[o.key]]
    [] OTHER -> [kind |-> "Nothing"]

(* Mutant: the whole key is deleted although somebody put something below. *)
RemovableAlways(r, keys) == keys

(* undo's DeleteKeys goes from the deepest level up and leaves a key that   *)
(* is not empty, so a level goes when everything at and below it goes.      *)
Removable(r, keys) ==
  {c \in keys : \A d \in Key : c \in Levels[d] => r[d] = Gone \/ (d \in keys /\ r[d] = Empty)}

Undoable(r, e) == e.kind = "RestoreValue" => r[e.key] # Gone

Undone(r, e) ==
  CASE e.kind = "DeleteValue" ->
         IF HasValue(r, e.key, e.name) THEN [r EXCEPT ![e.key][e.name] = None] ELSE r
    [] e.kind = "RestoreValue" -> [r EXCEPT ![e.key][e.name] = e.value]
    [] e.kind = "DeleteKeys" -> [k \in Key |-> IF k \in Removable(r, e.keys) THEN Gone ELSE r[k]]
    [] e.kind = "RestoreKey" ->
         [k \in Key |-> IF k = e.key
                        THEN [n \in Name |-> IF e.values[n] # None THEN e.values[n]
                                             ELSE IF r[k] = Gone THEN None ELSE r[k][n]]
                        ELSE IF k \in Levels[e.key] /\ r[k] = Gone THEN Empty ELSE r[k]]

(* What an undo step that fails may have done first: some of the keys       *)
(* deleted, deepest first, or the key back with some of its values.         *)
HalfUndone(r, e) ==
  CASE e.kind = "DeleteKeys" -> {Undone(r, [e EXCEPT !.keys = S]) : S \in (SUBSET e.keys) \ {e.keys}}
    [] e.kind = "RestoreKey" ->
         {r} \cup {Undone(r, [e EXCEPT !.values = [n \in Name |-> IF n \in S THEN @[n] ELSE None]]) :
                     S \in SUBSET Name}
    [] OTHER -> {r}

----------------------------------------------------------------------------
(* The transaction *)

TxInit ==
  /\ reg \in Registries
  /\ journal = <<>> /\ looked = Idle /\ status = "committed"
  /\ reversible = TRUE /\ failures = 0 /\ before = <<reg>> /\ foreign = {}

Begin ==
  /\ status \in Closed
  /\ status' = "open" /\ reversible' = TRUE /\ failures' = 0
  /\ before' = <<reg>> /\ foreign' = {}
  /\ UNCHANGED <<reg, journal, looked>>

(* An operation prepares its inverse, or refuses before it changes anything. *)
Look(o) ==
  /\ status = "open" /\ looked = Idle
  /\ Readable(reg, o)
  /\ looked' = [op |-> o, entry |-> EntryFor(reg, o)]
  /\ UNCHANGED <<reg, journal, status, reversible, failures, before, foreign>>

(* The change succeeds, and only now the inverse is kept. *)
Change ==
  /\ looked # Idle
  /\ Accepts(reg, looked.op)
  /\ reg' = Applied(reg, looked.op)
  /\ IF looked.entry.kind = "Nothing"
     THEN UNCHANGED <<journal, before>>
     ELSE /\ journal' = Append(journal, looked.entry)
          /\ before' = Append(before, reg')
  /\ looked' = Idle
  /\ UNCHANGED <<status, reversible, failures, foreign>>

(* The registry refuses; the caller may catch that or leave the scope. *)
Refuse(caught) ==
  /\ looked # Idle
  /\ looked' = Idle
  /\ status' = IF caught THEN status ELSE "failed"
  /\ UNCHANGED <<reg, journal, reversible, failures, before, foreign>>

(* takeOwnership and makeWritable are not journalled. *)
Widen ==
  /\ status = "open" /\ looked = Idle
  /\ reversible' = FALSE
  /\ UNCHANGED <<reg, journal, looked, status, failures, before, foreign>>

(* Any other exception leaves the scope. *)
Throw ==
  /\ status = "open" /\ looked = Idle
  /\ status' = "failed"
  /\ UNCHANGED <<reg, journal, looked, reversible, failures, before, foreign>>

commit ==
  /\ status = "open" /\ looked = Idle
  /\ status' = "committed"
  /\ journal' = <<>> /\ before' = <<reg>>
  /\ UNCHANGED <<reg, looked, reversible, failures, foreign>>

(* rollback, one entry at a time, newest first. *)
Forget == /\ journal' = SubSeq(journal, 1, Len(journal) - 1)
          /\ before' = SubSeq(before, 1, Len(before) - 1)

undo ==
  /\ status = "failed" /\ journal # <<>>
  /\ LET e == journal[Len(journal)]
     IN  Undoable(reg, e) /\ reg' = Undone(reg, e)
  /\ Forget
  /\ UNCHANGED <<looked, status, reversible, failures, foreign>>

(* A step that fails is recorded, and the rest still runs. *)
undoFails ==
  /\ status = "failed" /\ journal # <<>>
  /\ reg' \in HalfUndone(reg, journal[Len(journal)])
  /\ failures' = failures + 1
  /\ Forget
  /\ UNCHANGED <<looked, status, reversible, foreign>>

(* Mutant: the rollback is over before every entry has been taken back.     *)
rollbackEndsEarly ==
  /\ status = "failed"
  /\ status' = "rolledBack"
  /\ UNCHANGED <<reg, journal, looked, reversible, failures, before, foreign>>

rollbackEnds ==
  /\ status = "failed" /\ journal = <<>>
  /\ status' = "rolledBack"
  /\ UNCHANGED <<reg, journal, looked, reversible, failures, before, foreign>>

(* Another program changes the registry. *)
Elsewhere(r) ==
  /\ r \in Registries
  /\ reg' = r
  /\ foreign' = foreign \cup {k \in Key : r[k] # reg[k]}
  /\ UNCHANGED <<journal, looked, status, reversible, failures, before>>

TxNext ==
  \/ Begin \/ Change \/ Widen \/ Throw \/ commit
  \/ \E o \in Operations : Look(o)
  \/ \E caught \in BOOLEAN : Refuse(caught)
  \/ undo \/ undoFails \/ rollbackEnds
  \/ \E r \in Registries : Elsewhere(r)

TxSpec == TxInit /\ [][TxNext]_txVars

----------------------------------------------------------------------------
(* Properties *)

(* A transaction that did not commit leaves the registry as it was, when no *)
(* step of the rollback failed and nobody else wrote to it meanwhile        *)
(* (RegistryTransaction.h: "either the whole change is in place, or the     *)
(* registry is as it was").                                                 *)
RollbackRestores ==
  status = "rolledBack" /\ failures = 0 /\ foreign = {} => reg = Start

(* With other programs about, a key that nobody else touched, nor anything  *)
(* below it, is as it was; a key that is left over stays only because of    *)
(* somebody else's key below it, and nothing the transaction wrote is left  *)
(* in it; and no key of anybody's has lost a key above it                   *)
(* (RegistryTransaction.cpp, undo: "it is no longer only ours to remove",   *)
(* issue #189).                                                             *)
LeavesOnlyOthers ==
  status = "rolledBack" /\ failures = 0 =>
    /\ \A k \in Key \ foreign :
         \/ reg[k] = Start[k]
         \/ Start[k] = Gone /\ reg[k] = Empty /\ \E f \in foreign : k \in Levels[f]
    /\ \A f \in foreign : reg[f] # Gone => \A l \in Levels[f] : reg[l] # Gone
=============================================================================
