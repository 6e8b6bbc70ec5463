------------------------ MODULE DeviceInstall_proofs ------------------------
(***************************************************************************)
(* That a transaction which does not commit, and whose rollback meets no   *)
(* failure, leaves the registry as it was, and with other programs about   *)
(* what they did not touch of it: for every set of keys, names and values  *)
(* and any number of operations. Then that installing, uninstalling and    *)
(* reinstalling use the transaction that way, whatever the driver left and *)
(* whatever is selected; so a failed operation leaves the registry as it   *)
(* was. Last that the driver's chain comes back and that what was          *)
(* installed reads back, from what the instructions still to do will have  *)
(* made of each value (Owed), stage by stage of an operation.              *)
(***************************************************************************)
EXTENDS DeviceInstall, SequenceTheorems, TLAPS

-----------------------------------------------------------------------------
(* The transaction.                                                        *)

----------------------------------------------------------------------------
(* Registries are closed under the operations. *)

(* Storing into a key that exists. *)
LEMMA StoreCloses ==
  ASSUME NEW r \in Registries, NEW k \in Key, NEW n \in Name, NEW v \in Value \cup {None},
         r[k] # Gone
  PROVE  /\ [r EXCEPT ![k][n] = v] \in Registries
         /\ [r EXCEPT ![k][n] = v][k] = [r[k] EXCEPT ![n] = v]
         /\ [r EXCEPT ![k][n] = v][k] # Gone
<1> DEFINE s == [r EXCEPT ![k][n] = v]
<1>1. r[k] \in Contents
  BY DEF Registries
<1>2. [r[k] EXCEPT ![n] = v] \in Contents
  BY <1>1 DEF Contents
<1>3. s \in [Key -> Contents \cup {Gone}] /\ s[k] = [r[k] EXCEPT ![n] = v]
  BY <1>2 DEF Registries
<1>4. \A l \in Key : s[l] = Gone <=> r[l] = Gone
  BY <1>2, <1>3, Sentinels DEF Registries
<1>5. \A l \in Key : s[l] # Gone => \A m \in Levels[l] : s[m] # Gone
  <2> TAKE l \in Key
  <2> HAVE s[l] # Gone
  <2> TAKE m \in Levels[l]
  <2>1. m \in Key
    BY KeyTree
  <2>2. r[m] # Gone
    BY <1>4 DEF Registries
  <2> QED
    BY <1>4, <2>1, <2>2
<1>6. s[k] # Gone
  BY <1>4
<1> QED
  BY <1>3, <1>5, <1>6 DEF Registries

(* Creating the missing levels of a path. *)
LEMMA CreateCloses ==
  ASSUME NEW r \in Registries, NEW key \in Key
  PROVE  [k \in Key |-> IF k \in Levels[key] /\ r[k] = Gone THEN Empty ELSE r[k]] \in Registries
<1> DEFINE s == [k \in Key |-> IF k \in Levels[key] /\ r[k] = Gone THEN Empty ELSE r[k]]
<1>1. Empty \in Contents /\ Empty # Gone
  BY Sentinels DEF Empty, Contents
<1>2. s \in [Key -> Contents \cup {Gone}]
  BY <1>1 DEF Registries
<1>3. \A k \in Key : s[k] # Gone <=> (k \in Levels[key] \/ r[k] # Gone)
  BY <1>1
<1>4. \A k \in Key : s[k] # Gone => \A l \in Levels[k] : s[l] # Gone
  <2> TAKE k \in Key
  <2> HAVE s[k] # Gone
  <2> TAKE l \in Levels[k]
  <2>1. l \in Key /\ (k \in Levels[key] => l \in Levels[key])
    BY KeyTree
  <2>2. r[k] # Gone => r[l] # Gone
    BY DEF Registries
  <2> QED
    BY <1>3, <2>1, <2>2
<1> QED
  BY <1>2, <1>4 DEF Registries

(* Deleting a key that has no subkeys. *)
LEMMA DeleteCloses ==
  ASSUME NEW r \in Registries, NEW key \in Key, ~HasSubkey(r, key)
  PROVE  [r EXCEPT ![key] = Gone] \in Registries
<1> DEFINE s == [r EXCEPT ![key] = Gone]
<1>1. s \in [Key -> Contents \cup {Gone}]
  BY DEF Registries
<1>2. \A k \in Key : s[k] # Gone => \A l \in Levels[k] : s[l] # Gone
  BY KeyTree DEF Registries, HasSubkey
<1> QED
  BY <1>1, <1>2 DEF Registries

(* Deleting the removable ones of a set of keys. *)
LEMMA RemoveCloses ==
  ASSUME NEW r \in Registries, NEW keys \in SUBSET Key
  PROVE  [k \in Key |-> IF k \in Removable(r, keys) THEN Gone ELSE r[k]] \in Registries
<1> DEFINE s == [k \in Key |-> IF k \in Removable(r, keys) THEN Gone ELSE r[k]]
<1>1. s \in [Key -> Contents \cup {Gone}]
  BY DEF Registries
<1>2. \A k \in Key : s[k] # Gone => \A l \in Levels[k] : s[l] # Gone
  <2> TAKE k \in Key
  <2> HAVE s[k] # Gone
  <2> TAKE l \in Levels[k]
  <2>1. l \in Key /\ r[l] # Gone /\ r[k] # Gone /\ k \notin Removable(r, keys)
    BY KeyTree DEF Registries
  <2>2. ASSUME l \in Removable(r, keys) PROVE FALSE
    <3>1. k \in keys
      BY <2>1, <2>2 DEF Removable
    <3>2. \A d \in Key : k \in Levels[d] => l \in Levels[d]
      BY KeyTree
    <3> QED
      BY <2>1, <2>2, <3>1, <3>2 DEF Removable
  <2> QED
    BY <2>1, <2>2
<1> QED
  BY <1>1, <1>2 DEF Registries

(* Putting a key back with its values. *)
LEMMA RestoreCloses ==
  ASSUME NEW r \in Registries, NEW e \in Entries, e.kind = "RestoreKey"
  PROVE  Undone(r, e) \in Registries
<1>1. e.key \in Key /\ e.values \in Contents
  BY DEF Entries
<1> DEFINE filled == [n \in Name |-> IF e.values[n] # None THEN e.values[n]
                                     ELSE IF r[e.key] = Gone THEN None ELSE r[e.key][n]]
           created == [k \in Key |-> IF k \in Levels[e.key] /\ r[k] = Gone THEN Empty ELSE r[k]]
<1>2. filled \in Contents
  BY <1>1 DEF Contents, Registries
<1>3. created \in Registries
  BY <1>1, CreateCloses
<1>4. Undone(r, e) = [created EXCEPT ![e.key] = filled]
  BY <1>1 DEF Undone
<1>5. created[e.key] # Gone
  BY <1>1, KeyTree, Sentinels DEF Empty, Contents
<1>6. filled # Gone
  BY <1>2, Sentinels
<1> HIDE DEF filled, created
<1>7. [created EXCEPT ![e.key] = filled] \in Registries
  <2> DEFINE s == [created EXCEPT ![e.key] = filled]
  <2>1. s \in [Key -> Contents \cup {Gone}]
    BY <1>1, <1>2, <1>3 DEF Registries
  <2>2. \A k \in Key : s[k] # Gone <=> created[k] # Gone
    BY <1>3, <1>5, <1>6, <1>1 DEF Registries
  <2>3. \A k \in Key : created[k] # Gone => \A l \in Levels[k] : l \in Key /\ created[l] # Gone
    BY <1>3, KeyTree DEF Registries
  <2> HIDE DEF s
  <2>4. \A k \in Key : s[k] # Gone => \A l \in Levels[k] : s[l] # Gone
    BY <2>2, <2>3
  <2>5. s \in Registries
    BY <2>1, <2>4 DEF Registries
  <2> QED
    BY <2>5 DEF s
<1> QED
  BY <1>4, <1>7

(* An accepted operation makes a registry of a registry. *)
LEMMA AppliedCloses ==
  ASSUME NEW r \in Registries, NEW o \in Operations, Accepts(r, o)
  PROVE  Applied(r, o) \in Registries
<1>1. CASE o.op = "write"
  BY <1>1, StoreCloses DEF Operations, Accepts, Applied
<1>2. CASE o.op = "deleteValue"
  BY <1>2, StoreCloses DEF Operations, Accepts, Applied, HasValue
<1>3. CASE o.op = "createKey"
  BY <1>3, CreateCloses DEF Operations, Applied
<1>4. CASE o.op = "deleteKey"
  BY <1>4, DeleteCloses DEF Operations, Accepts, Applied
<1> QED
  BY <1>1, <1>2, <1>3, <1>4 DEF Operations

(* So does an undo step that succeeds. *)
LEMMA UndoneCloses ==
  ASSUME NEW r \in Registries, NEW e \in Entries, Undoable(r, e), e.kind # "Nothing"
  PROVE  Undone(r, e) \in Registries
<1>1. CASE e.kind = "DeleteValue"
  BY <1>1, StoreCloses DEF Entries, Undone, HasValue
<1>2. CASE e.kind = "RestoreValue"
  BY <1>2, StoreCloses DEF Entries, Undone, Undoable
<1>3. CASE e.kind = "DeleteKeys"
  BY <1>3, RemoveCloses DEF Entries, Undone
<1>4. CASE e.kind = "RestoreKey"
  BY <1>4, RestoreCloses
<1> QED
  BY <1>1, <1>2, <1>3, <1>4 DEF Entries

(* And whatever a step that fails has done. *)
LEMMA HalfUndoneCloses ==
  ASSUME NEW r \in Registries, NEW e \in Entries, NEW s \in HalfUndone(r, e)
  PROVE  s \in Registries
<1>1. CASE e.kind = "DeleteKeys"
  <2>1. PICK S \in SUBSET e.keys : s = Undone(r, [e EXCEPT !.keys = S])
    BY <1>1 DEF HalfUndone
  <2>3. e \in [kind : {"DeleteKeys"}, keys : SUBSET Key]
    BY <1>1 DEF Entries
  <2>4. [e EXCEPT !.keys = S] \in [kind : {"DeleteKeys"}, keys : SUBSET Key]
    BY <2>3
  <2>2. [e EXCEPT !.keys = S] \in Entries /\ [e EXCEPT !.keys = S].kind = "DeleteKeys"
    BY <2>4 DEF Entries
  <2> QED
    BY <2>1, <2>2, UndoneCloses DEF Undoable
<1>2. CASE e.kind = "RestoreKey"
  <2>1. CASE s = r
    BY <2>1
  <2>2. CASE s # r
    <3>1. PICK S \in SUBSET Name :
            s = Undone(r, [e EXCEPT !.values = [n \in Name |-> IF n \in S THEN @[n] ELSE None]])
      BY <1>2, <2>2 DEF HalfUndone
    <3>2. e \in [kind : {"RestoreKey"}, key : Key, values : Contents]
      BY <1>2 DEF Entries
    <3>3. [n \in Name |-> IF n \in S THEN e.values[n] ELSE None] \in Contents
      BY <3>2 DEF Contents
    <3>4. [e EXCEPT !.values = [n \in Name |-> IF n \in S THEN @[n] ELSE None]]
            \in [kind : {"RestoreKey"}, key : Key, values : Contents]
      BY <3>2, <3>3
    <3> QED
      BY <3>1, <3>4, RestoreCloses DEF Entries
  <2> QED
    BY <2>1, <2>2
<1>3. CASE e.kind \notin {"DeleteKeys", "RestoreKey"}
  BY <1>3 DEF HalfUndone
<1> QED
  BY <1>1, <1>2, <1>3

----------------------------------------------------------------------------
(* An undo step inverts the change its entry was prepared for. *)

(* Overwriting a value, and putting the old one back. *)
LEMMA StoreBack ==
  ASSUME NEW r \in Registries, NEW k \in Key, NEW n \in Name, NEW v \in Value \cup {None},
         r[k] # Gone
  PROVE  [[r EXCEPT ![k][n] = v] EXCEPT ![k][n] = r[k][n]] = r
<1>1. r \in [Key -> Contents \cup {Gone}] /\ r[k] \in Contents
  BY DEF Registries
<1>2. [[r[k] EXCEPT ![n] = v] EXCEPT ![n] = r[k][n]] = r[k]
  BY <1>1 DEF Contents
<1>3. [r EXCEPT ![k][n] = v] = [r EXCEPT ![k] = [r[k] EXCEPT ![n] = v]]
  BY <1>1
<1> QED
  BY <1>1, <1>2

LEMMA WriteInverts ==
  ASSUME NEW r \in Registries, NEW o \in Operations, o.op = "write", Accepts(r, o)
  PROVE  /\ EntryFor(r, o) \in Entries /\ EntryFor(r, o).kind # "Nothing"
         /\ Undoable(Applied(r, o), EntryFor(r, o))
         /\ Undone(Applied(r, o), EntryFor(r, o)) = r
<1> DEFINE k == o.key  n == o.name  v == o.value
<1>1. k \in Key /\ n \in Name /\ v \in Value /\ r[k] # Gone /\ r[k] \in Contents
  BY DEF Operations, Accepts, Registries
<1>2. Applied(r, o) = [r EXCEPT ![k][n] = v]
  BY DEF Applied
<1>3. Applied(r, o)[k] # Gone /\ Applied(r, o)[k][n] = v
  <2>1. Applied(r, o)[k] = [r[k] EXCEPT ![n] = v] /\ Applied(r, o)[k] # Gone
    BY <1>1, <1>2, StoreCloses
  <2>2. [r[k] EXCEPT ![n] = v][n] = v
    BY <1>1 DEF Contents
  <2> QED
    BY <2>1, <2>2
<1>4. [Applied(r, o) EXCEPT ![k][n] = r[k][n]] = r
  BY <1>1, <1>2, StoreBack
<1>5. CASE HasValue(r, k, n)
  <2>1. EntryFor(r, o) = [kind |-> "RestoreValue", key |-> k, name |-> n, value |-> r[k][n]]
    BY <1>5 DEF EntryFor
  <2>2. r[k][n] \in Value
    BY <1>1, <1>5 DEF HasValue, Contents
  <2> QED
    BY <1>1, <1>3, <1>4, <2>1, <2>2 DEF Entries, Undoable, Undone
<1>6. CASE ~HasValue(r, k, n)
  <2>1. EntryFor(r, o) = [kind |-> "DeleteValue", key |-> k, name |-> n]
    BY <1>1, <1>6 DEF EntryFor
  <2>2. r[k][n] = None
    BY <1>1, <1>6 DEF HasValue
  <2>3. HasValue(Applied(r, o), k, n)
    BY <1>1, <1>3, Sentinels DEF HasValue
  <2>4. Undone(Applied(r, o), EntryFor(r, o)) = [Applied(r, o) EXCEPT ![k][n] = None]
    BY <2>1, <2>3 DEF Undone
  <2>5. EntryFor(r, o) \in Entries /\ EntryFor(r, o).kind = "DeleteValue"
    BY <1>1, <2>1 DEF Entries
  <2> QED
    BY <1>4, <2>2, <2>4, <2>5 DEF Undoable
<1> QED
  BY <1>5, <1>6

LEMMA DeleteValueInverts ==
  ASSUME NEW r \in Registries, NEW o \in Operations, o.op = "deleteValue", Accepts(r, o)
  PROVE  /\ EntryFor(r, o) \in Entries /\ EntryFor(r, o).kind # "Nothing"
         /\ Undoable(Applied(r, o), EntryFor(r, o))
         /\ Undone(Applied(r, o), EntryFor(r, o)) = r
<1> DEFINE k == o.key  n == o.name
<1>1. k \in Key /\ n \in Name /\ r[k] # Gone /\ HasValue(r, k, n) /\ r[k] \in Contents
  BY DEF Operations, Accepts, Registries, HasValue
<1>2. Applied(r, o) = [r EXCEPT ![k][n] = None]
  BY DEF Applied
<1>3. Applied(r, o)[k] # Gone
  BY <1>1, <1>2, StoreCloses
<1>4. [Applied(r, o) EXCEPT ![k][n] = r[k][n]] = r
  BY <1>1, <1>2, StoreBack
<1>5. EntryFor(r, o) = [kind |-> "RestoreValue", key |-> k, name |-> n, value |-> r[k][n]]
  BY <1>1 DEF EntryFor
<1>6. r[k][n] \in Value
  BY <1>1 DEF HasValue, Contents
<1> QED
  BY <1>1, <1>3, <1>4, <1>5, <1>6 DEF Entries, Undoable, Undone

LEMMA CreateKeyInverts ==
  ASSUME NEW r \in Registries, NEW o \in Operations, o.op = "createKey"
  PROVE  /\ EntryFor(r, o) \in Entries
         /\ EntryFor(r, o).kind = "Nothing" => Applied(r, o) = r
         /\ EntryFor(r, o).kind # "Nothing" =>
              /\ Undoable(Applied(r, o), EntryFor(r, o))
              /\ Undone(Applied(r, o), EntryFor(r, o)) = r
<1> DEFINE made == {l \in Levels[o.key] : r[l] = Gone}
           s == Applied(r, o)
<1>1. o.key \in Key /\ o.key \in Levels[o.key] /\ made \in SUBSET Key
  BY KeyTree DEF Operations
<1>2. r \in [Key -> Contents \cup {Gone}]
  BY DEF Registries
<1>3. s = [k \in Key |-> IF k \in made THEN Empty ELSE r[k]]
  BY <1>2 DEF Applied
<1>4. Empty # Gone
  BY Sentinels DEF Empty, Contents
<1>5. CASE r[o.key] # Gone
  <2>1. made = {}
    BY <1>1, <1>5 DEF Registries
  <2>2. EntryFor(r, o) = [kind |-> "Nothing"]
    BY <1>5 DEF EntryFor
  <2>3. s = r
    BY <1>2, <1>3, <2>1
  <2> QED
    BY <2>2, <2>3 DEF Entries
<1>6. CASE r[o.key] = Gone
  <2>1. EntryFor(r, o) = [kind |-> "DeleteKeys", keys |-> made]
    BY <1>6 DEF EntryFor
  <2>2. \A c \in made, d \in Key : c \in Levels[d] => s[d] = Gone \/ (d \in made /\ s[d] = Empty)
    <3> TAKE c \in made, d \in Key
    <3> HAVE c \in Levels[d]
    <3>1. r[d] = Gone
      BY <1>1, KeyTree DEF Registries
    <3> QED
      BY <1>3, <3>1
  <2> HIDE DEF made, s
  <2>3. Removable(s, made) = made
    BY <2>2 DEF Removable
  <2>4. Undone(s, EntryFor(r, o)) = [k \in Key |-> IF k \in made THEN Gone ELSE s[k]]
    BY <2>1, <2>3 DEF Undone
  <2>5. \A k \in Key : (IF k \in made THEN Gone ELSE s[k]) = r[k]
    BY <1>3 DEF made
  <2>6. Undone(s, EntryFor(r, o)) = r
    BY <1>2, <2>4, <2>5
  <2> QED
    BY <1>1, <2>1, <2>6 DEF Entries, Undoable, s
<1> QED
  BY <1>5, <1>6

LEMMA DeleteKeyInverts ==
  ASSUME NEW r \in Registries, NEW o \in Operations, o.op = "deleteKey", Accepts(r, o)
  PROVE  /\ EntryFor(r, o) \in Entries /\ EntryFor(r, o).kind # "Nothing"
         /\ Undoable(Applied(r, o), EntryFor(r, o))
         /\ Undone(Applied(r, o), EntryFor(r, o)) = r
<1> DEFINE k == o.key  s == Applied(r, o)  e == EntryFor(r, o)
<1>1. k \in Key /\ r[k] # Gone /\ r[k] \in Contents /\ r \in [Key -> Contents \cup {Gone}]
  BY DEF Operations, Accepts, Registries
<1>2. s = [r EXCEPT ![k] = Gone]
  BY DEF Applied
<1>3. e = [kind |-> "RestoreKey", key |-> k, values |-> r[k]]
  BY <1>1 DEF EntryFor
<1>4. Undone(s, e) = [j \in Key |-> IF j = k
                        THEN [n \in Name |-> IF r[k][n] # None THEN r[k][n]
                                             ELSE IF s[j] = Gone THEN None ELSE s[j][n]]
                        ELSE IF j \in Levels[k] /\ s[j] = Gone THEN Empty ELSE s[j]]
  BY <1>3 DEF Undone
<1>5. s[k] = Gone
  BY <1>1, <1>2
<1>6. [n \in Name |-> IF r[k][n] # None THEN r[k][n] ELSE None] = r[k]
  BY <1>1 DEF Contents
<1>7. \A j \in Key : j # k => s[j] = r[j]
  BY <1>1, <1>2
<1>8. \A j \in Levels[k] : r[j] # Gone
  BY <1>1 DEF Registries
<1>9. \A j \in Key : Undone(s, e)[j] = r[j]
  BY <1>4, <1>5, <1>6, <1>7, <1>8
<1>10. Undone(s, e) = r
  BY <1>1, <1>4, <1>9
<1> QED
  BY <1>1, <1>3, <1>10 DEF Entries, Undoable

(* The four together. *)
LEMMA UndoInverts ==
  ASSUME NEW r \in Registries, NEW o \in Operations, Accepts(r, o)
  PROVE  /\ EntryFor(r, o).kind = "Nothing" => Applied(r, o) = r
         /\ EntryFor(r, o).kind # "Nothing" =>
              /\ Undoable(Applied(r, o), EntryFor(r, o))
              /\ Undone(Applied(r, o), EntryFor(r, o)) = r
<1> QED
  BY WriteInverts, DeleteValueInverts, CreateKeyInverts, DeleteKeyInverts DEF Operations

(* Whatever the registry holds, what is prepared is an entry. *)
LEMMA EntryForType ==
  ASSUME NEW r \in Registries, NEW o \in Operations
  PROVE  EntryFor(r, o) \in Entries
<1>1. CASE o.op \in {"write", "deleteValue"}
  <2>1. o.key \in Key /\ o.name \in Name
    BY <1>1 DEF Operations
  <2>2. HasValue(r, o.key, o.name) => r[o.key][o.name] \in Value
    BY <2>1 DEF HasValue, Registries, Contents
  <2> QED
    BY <1>1, <2>1, <2>2 DEF EntryFor, Entries
<1>2. CASE o.op = "createKey"
  BY <1>2, CreateKeyInverts
<1>3. CASE o.op = "deleteKey"
  <2>1. o.key \in Key /\ (r[o.key] # Gone => r[o.key] \in Contents)
    BY <1>3 DEF Operations, Registries
  <2> QED
    BY <1>3, <2>1 DEF EntryFor, Entries
<1> QED
  BY <1>1, <1>2, <1>3 DEF Operations

----------------------------------------------------------------------------
(* The inductive invariant *)

(* The operation under way belongs to an open transaction, and its inverse  *)
(* fits the registry as long as nobody else changes that.                   *)
LookFits ==
  looked # Idle => status = "open" /\ (foreign = {} => looked.entry = EntryFor(reg, looked.op))

(* A closed transaction has no journal. *)
ClosedIsEmpty == status \in Closed => journal = <<>> /\ looked = Idle

(* No entry is kept for a change that did not happen. *)
EveryEntryUndoes == \A i \in 1..Len(journal) : journal[i].kind # "Nothing"

(* Each entry leads from the registry after its change back to the one      *)
(* before it, the last of which is the registry itself.                     *)
JournalLeadsBack ==
  failures = 0 /\ foreign = {} =>
    /\ reg = before[Len(before)]
    /\ \A i \in 1..Len(journal) : /\ Undoable(before[i + 1], journal[i])
                                  /\ Undone(before[i + 1], journal[i]) = before[i]

TxInv == TxTypeOK /\ LookFits /\ ClosedIsEmpty /\ EveryEntryUndoes /\ JournalLeadsBack

LEMMA InitTxInv == TxInit => TxInv
<1> SUFFICES ASSUME TxInit PROVE TxInv
  OBVIOUS
<1> USE DEF TxInit
<1>1. TxTypeOK
  <2>1. reversible \in BOOLEAN
    BY Zenon
  <2>2. reg \in Registries /\ journal \in Seq(Entries) /\ before \in Seq(Registries)
        /\ Len(before) = Len(journal) + 1
    OBVIOUS
  <2> QED
    BY <2>1, <2>2 DEF TxTypeOK, Closed
<1>2. LookFits /\ ClosedIsEmpty /\ EveryEntryUndoes /\ JournalLeadsBack
  BY DEF LookFits, ClosedIsEmpty, EveryEntryUndoes, JournalLeadsBack
<1> QED
  BY <1>1, <1>2 DEF TxInv

(* Steps that leave registry and journal alone. *)
LEMMA QuietSteps ==
  ASSUME TxInv,
         \/ Begin \/ Widen \/ Throw \/ commit \/ rollbackEnds
         \/ \E o \in Operations : Look(o)
         \/ \E caught \in BOOLEAN : Refuse(caught)
         \/ UNCHANGED txVars
  PROVE  TxInv'
<1> USE DEF TxInv
<1>1. CASE Begin
  BY <1>1 DEF Begin, TxTypeOK, LookFits, ClosedIsEmpty, EveryEntryUndoes, JournalLeadsBack, Closed
<1>2. CASE Widen
  BY <1>2 DEF Widen, TxTypeOK, LookFits, ClosedIsEmpty, EveryEntryUndoes, JournalLeadsBack, Closed
<1>3. CASE Throw
  BY <1>3 DEF Throw, TxTypeOK, LookFits, ClosedIsEmpty, EveryEntryUndoes, JournalLeadsBack, Closed
<1>4. CASE commit
  BY <1>4 DEF commit, TxTypeOK, LookFits, ClosedIsEmpty, EveryEntryUndoes, JournalLeadsBack, Closed
<1>5. CASE rollbackEnds
  BY <1>5 DEF rollbackEnds, TxTypeOK, LookFits, ClosedIsEmpty, EveryEntryUndoes, JournalLeadsBack, Closed
<1>6. ASSUME NEW o \in Operations, Look(o) PROVE TxInv'
  <2>1. EntryFor(reg, o) \in Entries
    BY EntryForType DEF TxTypeOK
  <2>2. looked' \in {Idle} \cup [op : Operations, entry : Entries]
    BY <1>6, <2>1 DEF Look
  <2>3. TxTypeOK'
    BY <1>6, <2>2 DEF Look, TxTypeOK
  <2>4. LookFits' /\ ClosedIsEmpty'
    BY <1>6 DEF Look, LookFits, ClosedIsEmpty, Closed
  <2> QED
    BY <1>6, <2>3, <2>4 DEF Look, EveryEntryUndoes, JournalLeadsBack
<1>7. ASSUME NEW caught \in BOOLEAN, Refuse(caught) PROVE TxInv'
  <2>1. status' \in {status, "failed"}
    BY <1>7 DEF Refuse
  <2> QED
    BY <1>7, <2>1 DEF Refuse, TxTypeOK, LookFits, ClosedIsEmpty, EveryEntryUndoes, JournalLeadsBack, Closed
<1>8. CASE UNCHANGED txVars
  BY <1>8 DEF txVars, TxTypeOK, LookFits, ClosedIsEmpty, EveryEntryUndoes, JournalLeadsBack
<1> QED
  BY <1>1, <1>2, <1>3, <1>4, <1>5, <1>6, <1>7, <1>8

LEMMA ChangeKeeps ==
  ASSUME TxInv, Change
  PROVE  TxInv'
<1> USE DEF TxInv
<1>1. /\ looked \in [op : Operations, entry : Entries] /\ status = "open"
      /\ reg \in Registries /\ reg' = Applied(reg, looked.op) /\ looked' = Idle
      /\ UNCHANGED <<status, reversible, failures, foreign>>
  BY DEF Change, TxTypeOK, LookFits
<1> DEFINE o == looked.op  e == looked.entry
<1>2. o \in Operations /\ e \in Entries /\ Accepts(reg, o)
  BY <1>1 DEF Change
<1>6. foreign = {} => looked.entry = EntryFor(reg, looked.op)
  BY DEF Change, LookFits
<1>7. foreign = {} /\ looked.entry.kind = "Nothing" => Applied(reg, looked.op) = reg
  BY <1>2, <1>1, <1>6, UndoInverts
<1>8. foreign = {} /\ looked.entry.kind # "Nothing" =>
        /\ Undoable(Applied(reg, looked.op), looked.entry)
        /\ Undone(Applied(reg, looked.op), looked.entry) = reg
  BY <1>2, <1>1, <1>6, UndoInverts
<1>3. reg' \in Registries
  BY <1>1, <1>2, AppliedCloses
<1>4. CASE e.kind = "Nothing"
  <2>1. UNCHANGED <<journal, before>>
    BY <1>4 DEF Change
  <2>2. foreign = {} => reg' = reg
    BY <1>1, <1>4, <1>7
  <2>3. TxTypeOK'
    BY <1>1, <1>3, <2>1 DEF TxTypeOK
  <2> QED
    BY <1>1, <2>1, <2>2, <2>3 DEF LookFits, ClosedIsEmpty, EveryEntryUndoes, JournalLeadsBack, Closed
<1>5. CASE e.kind # "Nothing"
  <2>1. journal' = Append(journal, e) /\ before' = Append(before, reg')
    BY <1>5 DEF Change
  <2>2. TxTypeOK'
    BY <1>1, <1>2, <1>3, <2>1 DEF TxTypeOK
  <2>3. LookFits' /\ ClosedIsEmpty'
    BY <1>1 DEF LookFits, ClosedIsEmpty, Closed
  <2>4. EveryEntryUndoes'
    BY <1>2, <1>5, <2>1 DEF EveryEntryUndoes, TxTypeOK
  <2>5. JournalLeadsBack'
    <3>1. SUFFICES ASSUME failures = 0, foreign = {}
                   PROVE  /\ reg' = before'[Len(before')]
                          /\ \A i \in 1..Len(journal') :
                               /\ Undoable(before'[i + 1], journal'[i])
                               /\ Undone(before'[i + 1], journal'[i]) = before'[i]
      BY <1>1 DEF JournalLeadsBack
    <3>2. Undoable(reg', e) /\ Undone(reg', e) = reg
      BY <1>1, <1>5, <1>8, <3>1
    <3>3. /\ reg = before[Len(before)]
          /\ \A i \in 1..Len(journal) : /\ Undoable(before[i + 1], journal[i])
                                        /\ Undone(before[i + 1], journal[i]) = before[i]
      BY <3>1 DEF JournalLeadsBack
    <3>4. /\ Len(before) = Len(journal) + 1 /\ Len(journal) \in Nat
          /\ journal \in Seq(Entries) /\ before \in Seq(Registries)
      BY DEF TxTypeOK
    <3>5. /\ Len(journal') = Len(journal) + 1 /\ Len(before') = Len(before) + 1
          /\ journal'[Len(journal) + 1] = e /\ before'[Len(before) + 1] = reg'
          /\ \A i \in 1..Len(journal) : journal'[i] = journal[i]
          /\ \A i \in 1..Len(before) : before'[i] = before[i]
      BY <1>2, <1>3, <2>1, <3>4
    <3>6. ASSUME NEW i \in 1..Len(journal')
          PROVE  Undoable(before'[i + 1], journal'[i]) /\ Undone(before'[i + 1], journal'[i]) = before'[i]
      <4>1. CASE i = Len(journal')
        BY <3>2, <3>3, <3>4, <3>5, <4>1
      <4>2. CASE i # Len(journal')
        <5>1. i \in 1..Len(journal) /\ i + 1 \in 1..Len(before) /\ i \in 1..Len(before)
          BY <3>4, <3>5, <4>2
        <5> QED
          BY <3>3, <3>5, <5>1
      <4> QED
        BY <4>1, <4>2
    <3> QED
      BY <3>5, <3>6
  <2> QED
    BY <2>2, <2>3, <2>4, <2>5
<1> QED
  BY <1>4, <1>5

(* A sequence without its last element. *)
LEMMA OneShorter ==
  ASSUME NEW S, NEW s \in Seq(S), NEW n \in Nat, Len(s) = n + 1
  PROVE  /\ SubSeq(s, 1, Len(s) - 1) \in Seq(S) /\ Len(SubSeq(s, 1, Len(s) - 1)) = n
         /\ \A i \in 1..n : SubSeq(s, 1, Len(s) - 1)[i] = s[i]
<1> QED
  OBVIOUS

(* An undo step, successful or not, takes the newest entry off. *)
LEMMA ForgetKeeps ==
  ASSUME TxInv, journal # <<>>, Forget, reg' \in Registries, status = "failed",
         failures' \in {failures, failures + 1}, UNCHANGED <<looked, status, reversible, foreign>>,
         failures' = 0 /\ foreign = {} =>
           Undoable(reg, journal[Len(journal)]) /\ reg' = Undone(reg, journal[Len(journal)])
  PROVE  TxInv'
<1> USE DEF TxInv
<1>1. /\ journal \in Seq(Entries) /\ before \in Seq(Registries) /\ Len(journal) \in Nat \ {0}
      /\ Len(before) = Len(journal) + 1 /\ failures \in Nat
  BY DEF TxTypeOK
<1>2. /\ journal' \in Seq(Entries) /\ Len(journal') = Len(journal) - 1
      /\ before' \in Seq(Registries) /\ Len(before') = Len(before) - 1
      /\ \A i \in 1..Len(journal') : journal'[i] = journal[i]
      /\ \A i \in 1..Len(before') : before'[i] = before[i]
  <2>1. Len(journal) - 1 \in Nat /\ Len(journal) \in Nat
    BY <1>1
  <2>2. journal' \in Seq(Entries) /\ Len(journal') = Len(journal) - 1
        /\ \A i \in 1..Len(journal') : journal'[i] = journal[i]
    <3> DEFINE n == Len(journal) - 1
    <3>1. n \in Nat /\ Len(journal) = n + 1 /\ journal \in Seq(Entries)
      BY <1>1
    <3> QED
      BY <3>1, OneShorter DEF Forget
  <2>3. before' \in Seq(Registries) /\ Len(before') = Len(before) - 1
        /\ \A i \in 1..Len(before') : before'[i] = before[i]
    BY <1>1, <2>1, OneShorter DEF Forget
  <2> QED
    BY <2>2, <2>3
<1>3. TxTypeOK'
  BY <1>1, <1>2 DEF TxTypeOK
<1>4. LookFits' /\ ClosedIsEmpty'
  BY DEF LookFits, ClosedIsEmpty, Closed
<1>5. EveryEntryUndoes'
  BY <1>1, <1>2 DEF EveryEntryUndoes
<1>6. JournalLeadsBack'
  <2>1. SUFFICES ASSUME failures' = 0, foreign = {}
                 PROVE  /\ reg' = before'[Len(before')]
                        /\ \A i \in 1..Len(journal') :
                             /\ Undoable(before'[i + 1], journal'[i])
                             /\ Undone(before'[i + 1], journal'[i]) = before'[i]
    BY DEF JournalLeadsBack
  <2>2. /\ reg = before[Len(before)]
        /\ \A i \in 1..Len(journal) : /\ Undoable(before[i + 1], journal[i])
                                      /\ Undone(before[i + 1], journal[i]) = before[i]
    BY <1>1, <2>1 DEF JournalLeadsBack
  <2>3. reg' = before[Len(journal)]
    BY <1>1, <2>1, <2>2
  <2>4. ASSUME NEW i \in 1..Len(journal')
        PROVE  Undoable(before'[i + 1], journal'[i]) /\ Undone(before'[i + 1], journal'[i]) = before'[i]
    <3>1. i \in 1..Len(journal) /\ i + 1 \in 1..Len(before') /\ i \in 1..Len(before')
      BY <1>1, <1>2
    <3> QED
      BY <1>2, <2>2, <3>1
  <2> QED
    BY <1>1, <1>2, <2>3, <2>4
<1> QED
  BY <1>3, <1>4, <1>5, <1>6

LEMMA UndoKeeps ==
  ASSUME TxInv, undo \/ undoFails
  PROVE  TxInv'
<1> DEFINE e == journal[Len(journal)]
<1>1. reg \in Registries /\ e \in Entries /\ e.kind # "Nothing" /\ failures \in Nat /\ journal # <<>>
  BY DEF TxInv, TxTypeOK, EveryEntryUndoes, undo, undoFails
<1>2. CASE undo
  <2>1. Undoable(reg, e) /\ reg' = Undone(reg, e)
    BY <1>2 DEF undo
  <2>2. reg' \in Registries
    BY <1>1, <2>1, UndoneCloses
  <2> QED
    BY <1>1, <1>2, <2>1, <2>2, ForgetKeeps DEF undo
<1>3. CASE undoFails
  <2>1. reg' \in Registries
    BY <1>1, <1>3, HalfUndoneCloses DEF undoFails
  <2>2. failures' = failures + 1 /\ failures' # 0
    BY <1>1, <1>3 DEF undoFails
  <2> QED
    BY <1>1, <1>3, <2>1, <2>2, ForgetKeeps DEF undoFails
<1> QED
  BY <1>2, <1>3

LEMMA ElsewhereKeeps ==
  ASSUME TxInv, NEW r \in Registries, Elsewhere(r)
  PROVE  TxInv'
<1>1. foreign' = {} => foreign = {} /\ reg' = reg
  <2>1. ASSUME foreign' = {} PROVE \A k \in Key : r[k] = reg[k]
    BY <2>1 DEF Elsewhere
  <2>2. ASSUME foreign' = {} PROVE r = reg
    BY <2>1, <2>2 DEF Registries, TxInv, TxTypeOK
  <2> QED
    BY <2>2 DEF Elsewhere
<1>2. TxTypeOK'
  BY DEF Elsewhere, TxInv, TxTypeOK
<1>3. LookFits' /\ ClosedIsEmpty' /\ EveryEntryUndoes' /\ JournalLeadsBack'
  BY <1>1 DEF Elsewhere, TxInv, LookFits, ClosedIsEmpty, EveryEntryUndoes, JournalLeadsBack
<1> QED
  BY <1>2, <1>3 DEF TxInv

LEMMA TxStep == TxInv /\ [TxNext]_txVars => TxInv'
<1> SUFFICES ASSUME TxInv, [TxNext]_txVars PROVE TxInv'
  OBVIOUS
<1> QED
  BY QuietSteps, ChangeKeeps, UndoKeeps, ElsewhereKeeps DEF TxNext

(* The variables keep their types: in particular the registry below the     *)
(* transaction stays a tree, whatever is refused or undone half way.        *)
THEOREM TxTypeCorrect == TxSpec => []TxTypeOK
<1>1. TxInit => TxInv
  BY InitTxInv
<1>2. TxInv /\ [TxNext]_txVars => TxInv'
  BY TxStep
<1>3. TxInv => TxTypeOK
  BY DEF TxInv
<1> QED
  BY <1>1, <1>2, <1>3, PTL DEF TxSpec

(* A transaction that was rolled back, undisturbed and without a failure,   *)
(* leaves the registry as it was (RegistryTransaction.cpp, rollback).       *)
THEOREM RolledBackIsRestored == TxSpec => []RollbackRestores
<1>1. TxInit => TxInv
  BY InitTxInv
<1>2. TxInv /\ [TxNext]_txVars => TxInv'
  BY TxStep
<1>3. TxInv => RollbackRestores
  BY DEF TxInv, TxTypeOK, ClosedIsEmpty, JournalLeadsBack, RollbackRestores, Start, Closed
<1> QED
  BY <1>1, <1>2, <1>3, PTL DEF TxSpec
----------------------------------------------------------------------------
(* With other programs about. *)

(* On the keys that nobody else touched, r is as b, but for keys that are   *)
(* left over, empty, because of somebody else's key below them.             *)
Fits(r, b) ==
  \A k \in Key \ foreign :
    \/ r[k] = b[k]
    \/ b[k] = Gone /\ r[k] = Empty /\ \E f \in foreign : k \in Levels[f]

(* What the change of entry e made of b on those keys.                      *)
Leads(e, b, c) ==
  \A k \in Key \ foreign :
    /\ e.kind \in {"DeleteValue", "RestoreValue"} =>
         IF k = e.key
         THEN /\ c[k] # Gone
              /\ b[k] = [c[k] EXCEPT ![e.name] = IF e.kind = "DeleteValue" THEN None ELSE e.value]
         ELSE b[k] = c[k]
    /\ e.kind = "DeleteKeys" =>
         IF k \in e.keys THEN b[k] = Gone /\ c[k] = Empty ELSE b[k] = c[k]
    /\ e.kind = "RestoreKey" =>
         IF k = e.key THEN b[k] = e.values /\ c[k] = Gone
         ELSE b[k] = c[k] /\ (k \in Levels[e.key] => b[k] # Gone)

AsLeft == before[Len(before)]
OpenIsExact == status = "open" => \A k \in Key \ foreign : reg[k] = AsLeft[k]
RestIsLeft == failures = 0 => Fits(reg, AsLeft)
JournalLeads == \A i \in 1..Len(journal) : Leads(journal[i], before[i], before[i + 1])

(* The inverse prepared is the right one where nobody else has written since. *)
LookedRight ==
  looked # Idle =>
    LET o == looked.op
        e == looked.entry
    IN /\ o.op \in {"write", "deleteValue"} => e.kind \in {"RestoreValue", "DeleteValue", "Nothing"}
       /\ o.op = "createKey" => e.kind \in {"DeleteKeys", "Nothing"}
       /\ o.op = "deleteKey" => e.kind \in {"RestoreKey", "Nothing"}
       /\ e.kind \in {"RestoreValue", "DeleteValue", "RestoreKey"} => e.key = o.key
       /\ o.op # "createKey" /\ o.key \notin foreign => e = EntryFor(reg, o)
       /\ o.op = "createKey" =>
            \A k \in Levels[o.key] \ foreign :
              reg[k] = Gone <=> (e.kind = "DeleteKeys" /\ k \in e.keys)
       /\ e.kind = "DeleteKeys" => e.keys \subseteq Levels[o.key]

OthersInv == OpenIsExact /\ RestIsLeft /\ JournalLeads /\ LookedRight

(* Taking a value back. *)
LEMMA ValueUndoFits ==
  ASSUME NEW r \in Registries, NEW b \in Registries, NEW c \in Registries, NEW e \in Entries,
         e.kind \in {"DeleteValue", "RestoreValue"},
         Undoable(r, e), Leads(e, b, c), Fits(r, c)
  PROVE  Fits(Undone(r, e), b)
<1> DEFINE v == IF e.kind = "DeleteValue" THEN None ELSE e.value
           s == Undone(r, e)
<1>1. e.key \in Key /\ e.name \in Name
  BY DEF Entries
<1>2. r \in [Key -> Contents \cup {Gone}] /\ b \in [Key -> Contents \cup {Gone}]
      /\ c \in [Key -> Contents \cup {Gone}]
  BY DEF Registries
<1>3. \A k \in Key : k # e.key => s[k] = r[k]
  <2>1. CASE e.kind = "DeleteValue"
    BY <1>2, <2>1 DEF Undone
  <2>2. CASE e.kind = "RestoreValue"
    BY <1>2, <2>2 DEF Undone
  <2> QED
    BY <2>1, <2>2
<1>4. r[e.key] # Gone => s[e.key] = [r[e.key] EXCEPT ![e.name] = v]
  <2> SUFFICES ASSUME r[e.key] # Gone PROVE s[e.key] = [r[e.key] EXCEPT ![e.name] = v]
    OBVIOUS
  <2>1. r[e.key] \in Contents
    BY <1>1, <1>2
  <2>2. CASE e.kind = "RestoreValue"
    BY <1>1, <1>2, <2>2 DEF Undone
  <2>3. CASE e.kind = "DeleteValue" /\ HasValue(r, e.key, e.name)
    BY <1>1, <1>2, <2>3 DEF Undone
  <2>4. CASE e.kind = "DeleteValue" /\ ~HasValue(r, e.key, e.name)
    <3>1. r[e.key][e.name] = None /\ s = r
      BY <2>4 DEF Undone, HasValue
    <3>2. [r[e.key] EXCEPT ![e.name] = None] = r[e.key]
      BY <1>1, <2>1, <3>1 DEF Contents
    <3> QED
      BY <2>4, <3>1, <3>2
  <2> QED
    BY <2>2, <2>3, <2>4
<1> HIDE DEF s
<1>5. ASSUME NEW k \in Key \ foreign
      PROVE  \/ s[k] = b[k]
             \/ b[k] = Gone /\ s[k] = Empty /\ \E f \in foreign : k \in Levels[f]
  <2>1. CASE k = e.key
    <3>1. c[k] # Gone /\ b[k] = [c[k] EXCEPT ![e.name] = v]
      BY <2>1 DEF Leads
    <3>2. r[k] = c[k]
      BY <3>1 DEF Fits
    <3> QED
      BY <1>4, <2>1, <3>1, <3>2
  <2>2. CASE k # e.key
    BY <1>3, <2>2 DEF Leads, Fits
  <2> QED
    BY <2>1, <2>2
<1> QED
  BY <1>5 DEF Fits, s

(* Deleting the keys that were created, where they are no longer only ours  *)
(* to remove.                                                               *)
LEMMA KeysUndoFits ==
  ASSUME NEW r \in Registries, NEW b \in Registries, NEW c \in Registries, NEW e \in Entries,
         foreign \subseteq Key, e.kind = "DeleteKeys", Leads(e, b, c), Fits(r, c)
  PROVE  Fits(Undone(r, e), b)
<1> DEFINE s == Undone(r, e)
<1>1. s = [k \in Key |-> IF k \in Removable(r, e.keys) THEN Gone ELSE r[k]]
  BY DEF Undone
<1>2. ASSUME NEW k \in Key \ foreign
      PROVE  \/ s[k] = b[k]
             \/ b[k] = Gone /\ s[k] = Empty /\ \E f \in foreign : k \in Levels[f]
  <2>1. CASE k \notin e.keys
    <3>1. s[k] = r[k] /\ b[k] = c[k]
      BY <1>1, <2>1 DEF Removable, Leads
    <3> QED
      BY <3>1 DEF Fits
  <2>2. CASE k \in e.keys /\ k \in Removable(r, e.keys)
    BY <1>1, <2>2 DEF Leads
  <2>3. CASE k \in e.keys /\ k \notin Removable(r, e.keys)
    <3>1. b[k] = Gone /\ c[k] = Empty /\ Empty # Gone
      BY <2>3, Sentinels DEF Leads, Empty, Contents
    <3>2. s[k] = Empty
      BY <1>1, <2>3, <3>1 DEF Fits
    <3>3. PICK d \in Key : k \in Levels[d] /\ r[d] # Gone /\ ~(d \in e.keys /\ r[d] = Empty)
      BY <2>3 DEF Removable
    <3>4. CASE d \in foreign
      BY <3>1, <3>2, <3>3, <3>4
    <3>5. CASE d \notin foreign
      <4>1. b[d] = Gone
        BY <3>1, <3>3 DEF Registries
      <4>2. d \notin e.keys
        <5>1. ASSUME d \in e.keys PROVE c[d] = Empty
          BY <3>5, <5>1 DEF Leads
        <5> QED
          BY <3>1, <3>3, <3>5, <5>1 DEF Fits
      <4>3. c[d] = Gone
        BY <3>5, <4>1, <4>2 DEF Leads
      <4>4. PICK f \in foreign : d \in Levels[f]
        BY <3>3, <3>5, <4>3 DEF Fits
      <4>5. f \in Key
        OBVIOUS
      <4>6. k \in Levels[f]
        BY <3>3, <4>4, <4>5, KeyTree
      <4> QED
        BY <3>1, <3>2, <4>6
    <3> QED
      BY <3>4, <3>5
  <2> QED
    BY <2>1, <2>2, <2>3
<1> HIDE DEF s
<1> QED
  BY <1>2 DEF Fits, s
(* Putting a key back, with the levels above it that others have deleted.   *)
LEMMA RestoreUndoFits ==
  ASSUME NEW r \in Registries, NEW b \in Registries, NEW c \in Registries, NEW e \in Entries,
         e.kind = "RestoreKey", Leads(e, b, c), Fits(r, c)
  PROVE  Fits(Undone(r, e), b)
<1> DEFINE filled == [n \in Name |-> IF e.values[n] # None THEN e.values[n]
                                     ELSE IF r[e.key] = Gone THEN None ELSE r[e.key][n]]
           s == Undone(r, e)
<1>1. e.key \in Key /\ e.values \in Contents
  BY DEF Entries
<1>2. s[e.key] = filled
  BY <1>1 DEF Undone
<1>3. \A k \in Key : k # e.key => s[k] = IF k \in Levels[e.key] /\ r[k] = Gone THEN Empty ELSE r[k]
  BY DEF Undone
<1>4. r[e.key] \in {Gone, Empty} => filled = e.values
  <2> SUFFICES ASSUME r[e.key] \in {Gone, Empty} PROVE filled = e.values
    OBVIOUS
  <2>1. Empty # Gone
    BY Sentinels DEF Empty, Contents
  <2>2. ASSUME NEW n \in Name PROVE filled[n] = e.values[n]
    BY <2>1 DEF Empty
  <2>3. e.values = [n \in Name |-> e.values[n]]
    BY <1>1 DEF Contents
  <2> QED
    BY <2>2, <2>3
<1> HIDE DEF s, filled
<1>5. ASSUME NEW k \in Key \ foreign
      PROVE  \/ s[k] = b[k]
             \/ b[k] = Gone /\ s[k] = Empty /\ \E f \in foreign : k \in Levels[f]
  <2>1. CASE k = e.key
    <3>1. b[k] = e.values /\ c[k] = Gone
      BY <2>1 DEF Leads
    <3>2. r[k] \in {Gone, Empty}
      BY <3>1 DEF Fits
    <3> QED
      BY <1>2, <1>4, <2>1, <3>1, <3>2
  <2>2. CASE k # e.key
    <3>1. b[k] = c[k] /\ (k \in Levels[e.key] => b[k] # Gone)
      BY <2>2 DEF Leads
    <3>2. \/ r[k] = c[k]
          \/ c[k] = Gone /\ r[k] = Empty /\ \E f \in foreign : k \in Levels[f]
      BY DEF Fits
    <3>3. r[k] = Gone => k \notin Levels[e.key]
      BY <3>1, <3>2, Sentinels DEF Empty, Contents
    <3>4. s[k] = r[k]
      BY <1>3, <2>2, <3>3
    <3> QED
      BY <3>1, <3>2, <3>4
  <2> QED
    BY <2>1, <2>2
<1> QED
  BY <1>5 DEF Fits, s

(* Every entry leads from a registry that fits what its change left to one  *)
(* that fits what its change found.                                         *)
LEMMA UndoFits ==
  ASSUME NEW r \in Registries, NEW b \in Registries, NEW c \in Registries, NEW e \in Entries,
         foreign \subseteq Key, e.kind # "Nothing", Undoable(r, e), Leads(e, b, c), Fits(r, c)
  PROVE  Fits(Undone(r, e), b)
BY ValueUndoFits, KeysUndoFits, RestoreUndoFits DEF Entries

(* A look prepares the inverse of what it finds.                            *)
LEMMA LookIsRight ==
  ASSUME TxTypeOK, NEW o \in Operations, Look(o)
  PROVE  LookedRight'
<1>1. /\ looked' = [op |-> o, entry |-> EntryFor(reg, o)]
      /\ UNCHANGED <<reg, foreign>>
  BY DEF Look
<1>2. CASE o.op \in {"write", "deleteValue"}
  <2>1. EntryFor(reg, o).kind \in {"RestoreValue", "DeleteValue", "Nothing"}
    BY <1>2 DEF EntryFor
  <2>2. EntryFor(reg, o).kind \in {"RestoreValue", "DeleteValue"} => EntryFor(reg, o).key = o.key
    BY <1>2 DEF EntryFor
  <2> QED
    BY <1>1, <1>2, <2>1, <2>2 DEF LookedRight
<1>3. CASE o.op = "createKey"
  <2>1. EntryFor(reg, o) = IF reg[o.key] = Gone
                           THEN [kind |-> "DeleteKeys", keys |-> {l \in Levels[o.key] : reg[l] = Gone}]
                           ELSE [kind |-> "Nothing"]
    BY <1>3 DEF EntryFor
  <2>2. reg[o.key] # Gone => \A k \in Levels[o.key] : reg[k] # Gone
    BY <1>3 DEF TxTypeOK, Registries, Operations
  <2> QED
    BY <1>1, <1>3, <2>1, <2>2 DEF LookedRight
<1>4. CASE o.op = "deleteKey"
  <2>1. EntryFor(reg, o) = IF reg[o.key] # Gone
                           THEN [kind |-> "RestoreKey", key |-> o.key, values |-> reg[o.key]]
                           ELSE [kind |-> "Nothing"]
    BY <1>4 DEF EntryFor
  <2> QED
    BY <1>1, <1>4, <2>1 DEF LookedRight
<1> QED
  BY <1>2, <1>3, <1>4 DEF Operations

(* A change made after a look does, to the keys that nobody else touched    *)
(* in between, what its entry takes back; one without an entry does nothing *)
(* to them.                                                                 *)
LEMMA ChangeLeads ==
  ASSUME TxTypeOK, LookedRight, Change
  PROVE  /\ looked.entry.kind # "Nothing" => Leads(looked.entry, reg, reg')
         /\ looked.entry.kind = "Nothing" => \A k \in Key \ foreign : reg'[k] = reg[k]
<1> DEFINE o == looked.op  e == looked.entry
<1>1. /\ looked # Idle /\ looked \in [op : Operations, entry : Entries]
      /\ reg \in Registries /\ Accepts(reg, o) /\ reg' = Applied(reg, o)
      /\ o \in Operations /\ e \in Entries
  BY DEF Change, TxTypeOK
<1>2. /\ o.op \in {"write", "deleteValue"} => e.kind \in {"RestoreValue", "DeleteValue", "Nothing"}
      /\ o.op = "createKey" => e.kind \in {"DeleteKeys", "Nothing"}
      /\ o.op = "deleteKey" => e.kind \in {"RestoreKey", "Nothing"}
      /\ e.kind \in {"RestoreValue", "DeleteValue", "RestoreKey"} => e.key = o.key
      /\ o.op # "createKey" /\ o.key \notin foreign => e = EntryFor(reg, o)
      /\ o.op = "createKey" =>
           \A k \in Levels[o.key] \ foreign :
             reg[k] = Gone <=> (e.kind = "DeleteKeys" /\ k \in e.keys)
      /\ e.kind = "DeleteKeys" => e.keys \subseteq Levels[o.key]
  BY <1>1 DEF LookedRight
<1>3. o.key \in Key /\ reg \in [Key -> Contents \cup {Gone}]
  BY <1>1 DEF Operations, Registries
<1> SUFFICES /\ e.kind # "Nothing" => Leads(e, reg, reg')
             /\ e.kind = "Nothing" => \A k \in Key \ foreign : reg'[k] = reg[k]
  OBVIOUS
<1>4. CASE o.op \in {"write", "deleteValue"}
  <2> DEFINE v == IF o.op = "write" THEN o.value ELSE None
  <2>1. o.name \in Name /\ v \in Value \cup {None} /\ reg[o.key] # Gone /\ reg[o.key] \in Contents
    BY <1>1, <1>3, <1>4 DEF Operations, Accepts, HasValue
  <2>2. reg' = [reg EXCEPT ![o.key][o.name] = v]
    BY <1>1, <1>4 DEF Applied
  <2>3. \A k \in Key : k # o.key => reg'[k] = reg[k]
    BY <1>3, <2>2
  <2>4. reg'[o.key] = [reg[o.key] EXCEPT ![o.name] = v] /\ reg'[o.key] # Gone
    BY <1>1, <1>3, <2>1, <2>2, StoreCloses
  <2>5. CASE o.key \notin foreign
    <3>1. e = EntryFor(reg, o)
      BY <1>2, <1>4, <2>5
    <3> DEFINE w == IF e.kind = "DeleteValue" THEN None ELSE e.value
    <3>2. e.kind \in {"RestoreValue", "DeleteValue"} /\ e.name = o.name /\ w = reg[o.key][o.name]
      <4>1. CASE HasValue(reg, o.key, o.name)
        BY <1>4, <3>1, <4>1 DEF EntryFor
      <4>2. CASE ~HasValue(reg, o.key, o.name)
        <5>1. o.op = "write" /\ reg[o.key][o.name] = None
          BY <1>1, <1>4, <2>1, <4>2 DEF Accepts, HasValue
        <5>2. e = [kind |-> "DeleteValue", key |-> o.key, name |-> o.name]
          BY <2>1, <3>1, <4>2, <5>1 DEF EntryFor
        <5> QED
          BY <5>1, <5>2
      <4> QED
        BY <4>1, <4>2
    <3>3. reg[o.key] = [reg'[o.key] EXCEPT ![o.name] = w]
      <4>1. [[reg[o.key] EXCEPT ![o.name] = v] EXCEPT ![o.name] = reg[o.key][o.name]] = reg[o.key]
        BY <2>1 DEF Contents
      <4> QED
        BY <2>4, <3>2, <4>1
    <3> QED
      BY <1>2, <2>3, <2>4, <3>2, <3>3 DEF Leads
  <2>6. CASE o.key \in foreign
    BY <1>2, <1>4, <2>3, <2>6 DEF Leads
  <2> QED
    BY <2>5, <2>6
<1>5. CASE o.op = "createKey"
  <2>1. reg' = [k \in Key |-> IF k \in Levels[o.key] /\ reg[k] = Gone THEN Empty ELSE reg[k]]
    BY <1>1, <1>5 DEF Applied
  <2>2. CASE e.kind = "DeleteKeys"
    <3>1. ASSUME NEW k \in Key \ foreign
          PROVE  IF k \in e.keys THEN reg[k] = Gone /\ reg'[k] = Empty ELSE reg[k] = reg'[k]
      BY <1>2, <1>5, <2>1, <2>2
    <3> QED
      BY <2>2, <3>1 DEF Leads
  <2>3. CASE e.kind = "Nothing"
    BY <1>2, <1>5, <2>1, <2>3
  <2> QED
    BY <1>2, <1>5, <2>2, <2>3
<1>6. CASE o.op = "deleteKey"
  <2>1. reg' = [reg EXCEPT ![o.key] = Gone] /\ reg[o.key] # Gone
    BY <1>1, <1>6 DEF Applied, Accepts
  <2>2. \A k \in Levels[o.key] : reg[k] # Gone
    BY <1>1, <1>3, <2>1 DEF Registries
  <2>3. o.key \notin foreign => e = [kind |-> "RestoreKey", key |-> o.key, values |-> reg[o.key]]
    BY <1>2, <1>6, <2>1 DEF EntryFor
  <2> QED
    BY <1>2, <1>3, <1>6, <2>1, <2>2, <2>3 DEF Leads
<1> QED
  BY <1>1, <1>4, <1>5, <1>6 DEF Operations
(* Other programs' writes take keys from what is promised, and nothing more. *)
LEMMA ElsewhereOthers ==
  ASSUME TxInv, OthersInv, NEW r \in Registries, Elsewhere(r)
  PROVE  OthersInv'
<1>1. /\ foreign \subseteq foreign' /\ foreign' \subseteq Key
      /\ \A k \in Key \ foreign' : reg'[k] = reg[k]
      /\ UNCHANGED <<journal, looked, status, reversible, failures, before>>
  BY DEF Elsewhere, TxInv, TxTypeOK
<1>2. OpenIsExact'
  BY <1>1 DEF OthersInv, OpenIsExact, AsLeft
<1>3. RestIsLeft'
  BY <1>1 DEF OthersInv, RestIsLeft, Fits, AsLeft
<1>4. JournalLeads'
  <2>1. ASSUME NEW i \in 1..Len(journal)
        PROVE  Leads(journal[i], before[i], before[i + 1])'
    <3>1. Leads(journal[i], before[i], before[i + 1])
      BY DEF OthersInv, JournalLeads
    <3> QED
      BY <1>1, <3>1 DEF Leads
  <2> QED
    BY <1>1, <2>1 DEF JournalLeads
<1>5. LookedRight'
  <2> DEFINE o == looked.op  e == looked.entry
  <2> SUFFICES ASSUME looked # Idle
               PROVE  /\ o.op # "createKey" /\ o.key \notin foreign' => e = EntryFor(reg', o)
                      /\ o.op = "createKey" =>
                           \A k \in Levels[o.key] \ foreign' :
                             reg'[k] = Gone <=> (e.kind = "DeleteKeys" /\ k \in e.keys)
    BY <1>1 DEF OthersInv, LookedRight
  <2>1. o \in Operations /\ o.key \in Key
    BY DEF TxInv, TxTypeOK, Operations
  <2>2. ASSUME o.op # "createKey", o.key \notin foreign' PROVE e = EntryFor(reg', o)
    <3>1. e = EntryFor(reg, o) /\ reg'[o.key] = reg[o.key]
      BY <1>1, <2>1, <2>2 DEF OthersInv, LookedRight
    <3>2. EntryFor(reg', o) = EntryFor(reg, o)
      BY <2>2, <3>1 DEF EntryFor, HasValue
    <3> QED
      BY <3>1, <3>2
  <2>3. ASSUME o.op = "createKey", NEW k \in Levels[o.key] \ foreign'
        PROVE  reg'[k] = Gone <=> (e.kind = "DeleteKeys" /\ k \in e.keys)
    <3>1. k \in Key
      BY <2>1, KeyTree
    <3> QED
      BY <1>1, <2>3, <3>1 DEF OthersInv, LookedRight
  <2> QED
    BY <2>2, <2>3
<1> QED
  BY <1>2, <1>3, <1>4, <1>5 DEF OthersInv

(* A change and its entry are kept together.                                *)
LEMMA ChangeOthers ==
  ASSUME TxInv, OthersInv, Change
  PROVE  OthersInv'
<1> DEFINE e == looked.entry
<1>1. /\ journal \in Seq(Entries) /\ before \in Seq(Registries) /\ Len(journal) \in Nat
      /\ Len(before) = Len(journal) + 1 /\ status = "open" /\ e \in Entries
      /\ UNCHANGED <<status, failures, foreign>> /\ looked' = Idle
      /\ reg' \in Registries
  <2>1. TxInv'
    BY ChangeKeeps
  <2> QED
    BY <2>1 DEF TxInv, TxTypeOK, LookFits, Change
<1>2. \A k \in Key \ foreign : reg[k] = AsLeft[k]
  BY <1>1 DEF OthersInv, OpenIsExact
<1>3. LookedRight'
  BY <1>1 DEF LookedRight
<1>4. CASE e.kind = "Nothing"
  <2>1. /\ UNCHANGED <<journal, before>>
        /\ \A k \in Key \ foreign : reg'[k] = reg[k]
    BY <1>4, ChangeLeads DEF Change, TxInv, OthersInv
  <2>2. OpenIsExact' /\ RestIsLeft'
    BY <1>1, <1>2, <2>1 DEF OpenIsExact, RestIsLeft, AsLeft, Fits
  <2>3. JournalLeads'
    BY <1>1, <2>1 DEF OthersInv, JournalLeads, Leads
  <2> QED
    BY <1>3, <2>2, <2>3 DEF OthersInv
<1>5. CASE e.kind # "Nothing"
  <2>1. journal' = Append(journal, e) /\ before' = Append(before, reg')
    BY <1>5 DEF Change
  <2>2. /\ Len(journal') = Len(journal) + 1 /\ Len(before') = Len(before) + 1
        /\ journal'[Len(journal) + 1] = e /\ before'[Len(before) + 1] = reg'
        /\ \A i \in 1..Len(journal) : journal'[i] = journal[i]
        /\ \A i \in 1..Len(before) : before'[i] = before[i]
    BY <1>1, <2>1
  <2>3. AsLeft' = reg'
    BY <2>2 DEF AsLeft
  <2>4. OpenIsExact' /\ RestIsLeft'
    BY <2>3 DEF OpenIsExact, RestIsLeft, Fits
  <2>5. ASSUME NEW i \in 1..Len(journal')
        PROVE  Leads(journal'[i], before'[i], before'[i + 1])
    <3>1. CASE i = Len(journal) + 1
      <4>1. /\ journal'[i] = e /\ before'[i] = AsLeft /\ before'[i + 1] = reg'
        BY <1>1, <2>2, <3>1 DEF AsLeft
      <4>2. Leads(e, reg, reg')
        BY <1>5, ChangeLeads DEF TxInv, OthersInv
      <4>3. Leads(e, AsLeft, reg')
        BY <1>2, <4>2 DEF Leads
      <4> QED
        BY <4>1, <4>3
    <3>2. CASE i # Len(journal) + 1
      <4>1. i \in 1..Len(journal) /\ i \in 1..Len(before) /\ i + 1 \in 1..Len(before)
        BY <1>1, <2>2, <3>2
      <4>2. journal'[i] = journal[i] /\ before'[i] = before[i] /\ before'[i + 1] = before[i + 1]
        BY <2>2, <4>1
      <4> QED
        BY <4>1, <4>2 DEF OthersInv, JournalLeads
    <3> QED
      BY <3>1, <3>2
  <2>6. JournalLeads'
    BY <1>1, <2>5 DEF JournalLeads, Leads
  <2> QED
    BY <1>3, <2>4, <2>6 DEF OthersInv
<1> QED
  BY <1>4, <1>5

(* An undo step takes the newest entry off, and what is left fits.          *)
LEMMA UndoOthers ==
  ASSUME TxInv, OthersInv, undo \/ undoFails
  PROVE  OthersInv'
<1> DEFINE n == Len(journal)
           e == journal[n]
<1>1. /\ journal \in Seq(Entries) /\ before \in Seq(Registries) /\ n \in Nat \ {0}
      /\ Len(before) = n + 1 /\ failures \in Nat /\ status = "failed"
      /\ reg \in Registries /\ foreign \subseteq Key /\ looked = Idle
      /\ UNCHANGED <<looked, status, foreign>>
  BY DEF TxInv, TxTypeOK, LookFits, undo, undoFails
<1>2. /\ e \in Entries /\ e.kind # "Nothing"
      /\ before[n] \in Registries /\ before[n + 1] \in Registries
  BY <1>1 DEF TxInv, EveryEntryUndoes
<1>3. /\ Len(journal') = n - 1 /\ Len(before') = n
      /\ \A i \in 1..(n - 1) : journal'[i] = journal[i]
      /\ \A i \in 1..n : before'[i] = before[i]
  <2>1. /\ journal' = SubSeq(journal, 1, Len(journal) - 1)
        /\ before' = SubSeq(before, 1, Len(before) - 1)
    BY DEF undo, undoFails, Forget
  <2>2. Len(journal') = n - 1 /\ \A i \in 1..(n - 1) : journal'[i] = journal[i]
    <3> DEFINE m == n - 1
    <3>1. m \in Nat /\ Len(journal) = m + 1 /\ journal \in Seq(Entries)
      BY <1>1
    <3>2. Len(journal') = m /\ \A i \in 1..m : journal'[i] = journal[i]
      BY <2>1, <3>1, OneShorter
    <3> QED
      BY <3>2
  <2>3. Len(before') = n /\ \A i \in 1..n : before'[i] = before[i]
    BY <1>1, <2>1, OneShorter
  <2> QED
    BY <2>2, <2>3
<1>4. JournalLeads'
  <2>1. ASSUME NEW i \in 1..(n - 1) PROVE Leads(journal'[i], before'[i], before'[i + 1])
    <3>1. i \in 1..n /\ i + 1 \in 1..n
      BY <1>1
    <3> QED
      BY <1>3, <3>1 DEF OthersInv, JournalLeads
  <2> QED
    BY <1>1, <1>3, <2>1 DEF JournalLeads, Leads
<1>5. RestIsLeft'
  <2> SUFFICES ASSUME failures' = 0 PROVE Fits(reg', AsLeft')
    BY <1>1 DEF RestIsLeft, Fits
  <2>1. undo /\ failures = 0
    BY <1>1 DEF undo, undoFails
  <2>2. Undoable(reg, e) /\ reg' = Undone(reg, e)
    BY <2>1 DEF undo
  <2>3. Fits(reg, before[n + 1]) /\ Leads(e, before[n], before[n + 1])
    BY <1>1, <2>1 DEF OthersInv, RestIsLeft, JournalLeads, AsLeft
  <2>4. Fits(Undone(reg, e), before[n])
    BY <1>1, <1>2, <2>2, <2>3, UndoFits
  <2>5. AsLeft' = before[n]
    BY <1>1, <1>3 DEF AsLeft
  <2> QED
    BY <2>2, <2>4, <2>5
<1>6. OpenIsExact' /\ LookedRight'
  BY <1>1 DEF OpenIsExact, LookedRight
<1> QED
  BY <1>4, <1>5, <1>6 DEF OthersInv

(* The other steps leave the registry alone.                                *)
LEMMA QuietOthers ==
  ASSUME TxInv, OthersInv,
         \/ Begin \/ Widen \/ Throw \/ commit \/ rollbackEnds
         \/ \E o \in Operations : Look(o)
         \/ \E caught \in BOOLEAN : Refuse(caught)
         \/ UNCHANGED txVars
  PROVE  OthersInv'
<1>1. CASE Begin \/ commit
  <2>1. /\ reg' = reg /\ journal' = <<>> /\ before' = <<reg>> /\ looked' = looked
        /\ foreign' \in {foreign, {}} /\ looked = Idle
    BY <1>1 DEF Begin, commit, TxInv, ClosedIsEmpty
  <2>2. AsLeft' = reg'
    BY <2>1 DEF AsLeft
  <2>3. OpenIsExact' /\ RestIsLeft'
    BY <2>2 DEF OpenIsExact, RestIsLeft, Fits
  <2>4. JournalLeads' /\ LookedRight'
    BY <2>1 DEF JournalLeads, LookedRight
  <2> QED
    BY <2>3, <2>4 DEF OthersInv
<1>2. CASE UNCHANGED <<reg, journal, before, failures, foreign>>
           /\ status' \in {status, "failed", "rolledBack"}
  <2>1. OpenIsExact' /\ RestIsLeft'
    BY <1>2 DEF OthersInv, OpenIsExact, RestIsLeft, AsLeft, Fits
  <2>2. JournalLeads'
    BY <1>2 DEF OthersInv, JournalLeads, Leads
  <2>3. LookedRight'
    <3>1. CASE UNCHANGED looked
      BY <1>2, <3>1 DEF OthersInv, LookedRight
    <3>2. CASE looked' = Idle
      BY <3>2 DEF LookedRight
    <3>3. ASSUME NEW o \in Operations, Look(o) PROVE LookedRight'
      BY <3>3, LookIsRight DEF TxInv
    <3> QED
      BY <1>1, <3>1, <3>2, <3>3 DEF Begin, commit, Widen, Throw, rollbackEnds, Refuse, txVars
  <2> QED
    BY <2>1, <2>2, <2>3 DEF OthersInv
<1>3. ASSUME NEW o \in Operations, Look(o) PROVE OthersInv'
  BY <1>2, <1>3 DEF Look
<1>4. ASSUME NEW caught \in BOOLEAN, Refuse(caught) PROVE OthersInv'
  BY <1>2, <1>4 DEF Refuse
<1> QED
  BY <1>1, <1>2, <1>3, <1>4 DEF Widen, Throw, rollbackEnds, txVars

LEMMA InitOthers == TxInit => OthersInv
<1> SUFFICES ASSUME TxInit PROVE OthersInv
  OBVIOUS
<1>1. journal = <<>> /\ before = <<reg>> /\ looked = Idle
  BY DEF TxInit
<1>2. AsLeft = reg
  BY <1>1 DEF AsLeft
<1>3. Len(journal) = 0 /\ 1..Len(journal) = {}
  BY <1>1
<1>4. JournalLeads /\ LookedRight
  BY <1>1, <1>3, Zenon DEF JournalLeads, LookedRight
<1>5. OpenIsExact /\ RestIsLeft
  BY <1>2 DEF OpenIsExact, RestIsLeft, Fits
<1> QED
  BY <1>4, <1>5 DEF OthersInv

LEMMA OthersStep == TxInv /\ OthersInv /\ [TxNext]_txVars => OthersInv'
<1> QED
  BY QuietOthers, ChangeOthers, UndoOthers, ElsewhereOthers DEF TxNext

(* Whatever other programs do to the registry meanwhile, a rollback that    *)
(* meets no failure puts the keys they did not touch back as they were, but *)
(* for created keys that have become the parents of theirs                  *)
(* (RegistryTransaction.cpp, undo).                                         *)
THEOREM OthersAreLeft == TxSpec => []LeavesOnlyOthers
<1>1. TxInit => TxInv /\ OthersInv
  BY InitTxInv, InitOthers
<1>2. TxInv /\ OthersInv /\ [TxNext]_txVars => (TxInv /\ OthersInv)'
  BY TxStep, OthersStep
<1>3. TxInv /\ OthersInv => LeavesOnlyOthers
  <2> SUFFICES ASSUME TxInv, OthersInv, status = "rolledBack", failures = 0
               PROVE  /\ \A k \in Key \ foreign :
                           \/ reg[k] = Start[k]
                           \/ Start[k] = Gone /\ reg[k] = Empty /\ \E f \in foreign : k \in Levels[f]
                      /\ \A f \in foreign : reg[f] # Gone => \A l \in Levels[f] : reg[l] # Gone
    BY DEF LeavesOnlyOthers
  <2>1. journal = <<>> /\ Len(before) = 1 /\ reg \in Registries /\ foreign \subseteq Key
    BY DEF TxInv, TxTypeOK, ClosedIsEmpty, Closed
  <2>2. Fits(reg, Start)
    BY <2>1 DEF OthersInv, RestIsLeft, AsLeft, Start
  <2> QED
    BY <2>1, <2>2 DEF Fits, Registries
<1> QED
  BY <1>1, <1>2, <1>3, PTL DEF TxSpec

-----------------------------------------------------------------------------
(* The operations on a device.                                             *)

Calls == {"createFx", "widen", "load", "installWithin", "uninstallWithin", "fxProperties",
          "removeAsioEntry", "applyAsioEntry", "mayThrow"}

(* The registry operations of an installation: none of them names the key   *)
(* that is Windows', and of FxProperties they write only what uninstalling  *)
(* takes back.                                                              *)
OwnKeys == {"Fx", "ChildApos", "Child", "record", "entry"}
OwnNames == allGuidValueNames \cup Lists \cup {"fxTitle"}
Writable(k, n) == k = "Fx" => n \in OwnNames
OwnOperations ==
  {o \in Operations : o.key \in OwnKeys /\ (o.op = "write" => Writable(o.key, o.name))}
Instructions ==
  [when : {"call"}, f : Calls]
    \cup [when : {"always", "absent", "there", "exists", "empty"}, op : OwnOperations]

InfoOK ==
  /\ info.originals \in [allGuidValueNames -> Value]
  /\ selected.mode \in InstallModes

(* An operation under way is one of the instructions still to do.           *)
Underway == looked # Idle => todo # <<>>

DevInv == TxInv /\ InfoOK /\ todo \in Seq(Instructions) /\ Underway

----------------------------------------------------------------------------
(* Instructions *)

LEMMA Names ==
  /\ allGuidValueNames \subseteq Name /\ Lists \subseteq Name
  /\ {"fxTitle", "disableEnhancements", "PreMixChild", "PostMixChild",
      "DisableAutomaticAdjustment", "Version", "TargetKind"} \subseteq Name
  /\ {"Fx", "windows", "ChildApos", "Child", "Asio", "record", "entry"} \subseteq Key
  /\ {"preMix", "postMix", "!KEY", "!VALUE", "", "allModes", "title", "true", "2", "exclusive"}
       \subseteq Value
<1> QED
  BY DeviceTree DEF DeviceNames, DeviceKeys, DeviceValues, Ours

LEMMA MadeOf ==
  /\ \A k \in OwnKeys : /\ createKey(k) \in Instructions
                        /\ deleteIfExists(k) \in Instructions /\ deleteIfEmpty(k) \in Instructions
  /\ \A k \in OwnKeys, n \in Name : deleteIfThere(k, n) \in Instructions
  /\ \A k \in OwnKeys, n \in Name, v \in Value :
       Writable(k, n) => write(k, n, v) \in Instructions /\ writeIfAbsent(k, n, v) \in Instructions
<1>0. OwnKeys \subseteq Key
  BY Names DEF OwnKeys
<1>1. ASSUME NEW k \in OwnKeys
      PROVE  /\ createKey(k) \in Instructions
             /\ deleteIfExists(k) \in Instructions /\ deleteIfEmpty(k) \in Instructions
  <2>1. /\ [op |-> "createKey", key |-> k] \in OwnOperations
        /\ [op |-> "deleteKey", key |-> k] \in OwnOperations
    BY <1>0 DEF Operations, OwnOperations
  <2> QED
    BY <2>1 DEF createKey, deleteIfExists, deleteIfEmpty, Instructions
<1>2. ASSUME NEW k \in OwnKeys, NEW n \in Name PROVE deleteIfThere(k, n) \in Instructions
  <2>1. [op |-> "deleteValue", key |-> k, name |-> n] \in OwnOperations
    BY <1>0 DEF Operations, OwnOperations
  <2> QED
    BY <2>1 DEF deleteIfThere, Instructions
<1>3. ASSUME NEW k \in OwnKeys, NEW n \in Name, NEW v \in Value, Writable(k, n)
      PROVE  write(k, n, v) \in Instructions /\ writeIfAbsent(k, n, v) \in Instructions
  <2>1. [op |-> "write", key |-> k, name |-> n, value |-> v] \in OwnOperations
    BY <1>0, <1>3 DEF Operations, OwnOperations
  <2>2. writeIfAbsent(k, n, v) =
          [when |-> "absent", op |-> [op |-> "write", key |-> k, name |-> n, value |-> v]]
    BY DEF writeIfAbsent, write
  <2> QED
    BY <2>1, <2>2 DEF write, Instructions
<1> QED
  BY <1>1, <1>2, <1>3

(* What the installation names is its own.                                  *)
LEMMA OwnThings ==
  /\ OwnKeys = {"Fx", "ChildApos", "Child", "record", "entry"}
  /\ allGuidValueNames \subseteq OwnNames /\ Lists \subseteq OwnNames /\ "fxTitle" \in OwnNames
  /\ \A n \in OwnNames : Writable("Fx", n)
  /\ \A k \in OwnKeys \ {"Fx"} : \A n \in Name : Writable(k, n)
<1> QED
  BY DEF OwnKeys, OwnNames, Writable

LEMMA CallsAre == \A f \in Calls : Call(f) \in Instructions
<1> QED
  BY DEF Call, Instructions

LEMMA Joined ==
  ASSUME NEW s \in Seq(Instructions), NEW t \in Seq(Instructions)
  PROVE  s \o t \in Seq(Instructions)
<1> QED
  OBVIOUS

LEMMA VacateType ==
  ASSUME NEW s \in Seq(Name) PROVE Vacate(s) \in Seq(Instructions)
<1>1. "Fx" \in Key
  BY Names
<1>2. \A i \in 1..Len(s) : s[i] \in Name
  OBVIOUS
<1>3. \A i \in 1..Len(s) : deleteIfThere("Fx", s[i]) \in Instructions
  BY <1>1, <1>2, MadeOf, OwnThings
<1>4. Vacate(s) \in [1..Len(s) -> Instructions]
  BY <1>3 DEF Vacate
<1> QED
  BY <1>4, SeqDef

----------------------------------------------------------------------------
(* What load reads, and the instructions of every function called *)

LEMMA LoadedType ==
  ASSUME NEW r \in Registries
  PROVE  /\ Loaded(r).originals \in [allGuidValueNames -> Value]
         /\ Loaded(r).current.mode \in InstallModes
<1>1. ASSUME NEW s \in allGuidValueNames PROVE originalApoGuids(r)[s] \in Value
  <2>1. \A k \in {"Fx", "Child"} : HasValue(r, k, s) => r[k][s] \in Value
    BY Names DEF HasValue, Registries, Contents
  <2> QED
    BY <2>1, Names DEF originalApoGuids
<1>2. originalApoGuids(r) \in [allGuidValueNames -> Value]
  BY <1>1 DEF originalApoGuids
<1>3. LoadedMode(r) \in InstallModes
  BY DEF LoadedMode, InstallModes
<1> QED
  BY <1>2, <1>3 DEF Loaded

LEMMA OriginalType ==
  ASSUME InfoOK
  PROVE  getOriginalAPOPreMix \in Value /\ getOriginalAPOPostMix \in Value
<1>1. preSlot \in allGuidValueNames /\ postSlot \in allGuidValueNames
  BY DEF InfoOK, InstallModes, preSlot, postSlot, allGuidValueNames
<1>2. ASSUME NEW slot \in allGuidValueNames, NEW fallback \in allGuidValueNames
      PROVE  getOriginal(slot, fallback) \in Value
  BY Names DEF getOriginal, InfoOK
<1> QED
  BY <1>1, <1>2 DEF getOriginalAPOPreMix, getOriginalAPOPostMix, allGuidValueNames

LEMMA PopulateType ==
  ASSUME NEW wanted, NEW slot \in allGuidValueNames, NEW v \in Value
  PROVE  Populate(wanted, slot, v) \in Seq(Instructions)
<1>1. <<>> \in Seq(Instructions)
  OBVIOUS
<1>2. ASSUME NEW n \in OwnNames
      PROVE  /\ <<write("Fx", n, v)>> \in Seq(Instructions)
             /\ <<writeIfAbsent("Fx", n, "allModes")>> \in Seq(Instructions)
  <2>1. "Fx" \in OwnKeys /\ n \in Name /\ "allModes" \in Value
    BY Names, OwnThings DEF OwnNames
  <2>2. write("Fx", n, v) \in Instructions /\ writeIfAbsent("Fx", n, "allModes") \in Instructions
    BY <2>1, MadeOf, OwnThings
  <2> QED
    BY <2>2
<1>3. <<write("Fx", slot, v)>> \in Seq(Instructions)
  BY <1>2, OwnThings
<1>4. /\ <<writeIfAbsent("Fx", "sfxModes", "allModes")>> \in Seq(Instructions)
      /\ <<writeIfAbsent("Fx", "mfxModes", "allModes")>> \in Seq(Instructions)
      /\ <<writeIfAbsent("Fx", "efxModes", "allModes")>> \in Seq(Instructions)
  BY <1>2, OwnThings DEF Lists
<1> QED
  BY <1>1, <1>3, <1>4, Joined DEF Populate

LEMMA FxPropertiesType ==
  ASSUME reg \in Registries
  PROVE  fxProperties \in Seq(Instructions)
<1>1. Len(Slots) = 5 /\ \A i \in 1..5 : Slots[i] \in allGuidValueNames
  BY DEF Slots, allGuidValueNames
<1>2. CASE reg["Fx"] = Gone
  <2>1. \A i \in 1..5 : write("Child", Slots[i], "!KEY") \in Instructions
    BY <1>1, MadeOf, OwnThings, Names
  <2>2. [i \in 1..Len(Slots) |-> write("Child", Slots[i], "!KEY")] \in [1..5 -> Instructions]
    BY <1>1, <2>1
  <2>3. [i \in 1..Len(Slots) |-> write("Child", Slots[i], "!KEY")] \in Seq(Instructions)
    BY <2>2, SeqDef
  <2>4. Call("createFx") \in Instructions /\ write("Fx", "fxTitle", "title") \in Instructions
    BY MadeOf, OwnThings, Names, CallsAre DEF Calls
  <2>5. <<Call("createFx"), write("Fx", "fxTitle", "title")>> \in Seq(Instructions)
    BY <2>4
  <2> QED
    BY <1>2, <2>3, <2>5, Joined DEF fxProperties
<1>3. CASE reg["Fx"] # Gone
  <2> DEFINE copied(s) == IF HasValue(reg, "Fx", s) THEN reg["Fx"][s] ELSE "!VALUE"
  <2>1. \A s \in allGuidValueNames : copied(s) \in Value
    BY <1>3, Names DEF HasValue, Registries, Contents
  <2>2. \A i \in 1..5 : write("Child", Slots[i], copied(Slots[i])) \in Instructions
    BY <1>1, <2>1, MadeOf, OwnThings, Names
  <2>3. [i \in 1..Len(Slots) |-> write("Child", Slots[i], copied(Slots[i]))] \in [1..5 -> Instructions]
    BY <1>1, <2>2
  <2>4. [i \in 1..Len(Slots) |-> write("Child", Slots[i], copied(Slots[i]))] \in Seq(Instructions)
    BY <2>3, SeqDef
  <2>5. <<Call("mayThrow")>> \in Seq(Instructions) /\ <<>> \in Seq(Instructions)
    BY CallsAre DEF Calls
  <2> QED
    BY <1>3, <2>4, <2>5, Joined DEF fxProperties
<1> QED
  BY <1>2, <1>3

LEMMA InstallType ==
  ASSUME InfoOK
  PROVE  installWithin \in Seq(Instructions)
<1>1. preSlot \in allGuidValueNames /\ postSlot \in allGuidValueNames
  BY DEF InfoOK, InstallModes, preSlot, postSlot, allGuidValueNames
<1> DEFINE populated == Populate(selected.pre, preSlot, "preMix")
                          \o Populate(selected.post /\ ~device.input, postSlot, "postMix")
           pre == IF selected.usePre THEN getOriginalAPOPreMix ELSE ""
           post == IF selected.usePost THEN getOriginalAPOPostMix ELSE ""
           adjust == IF selected.adjust THEN deleteIfThere("Child", "DisableAutomaticAdjustment")
                     ELSE write("Child", "DisableAutomaticAdjustment", "true")
           head == <<createKey("ChildApos"), createKey("Child"), Call("fxProperties"),
                     write("Child", "PreMixChild", pre), write("Child", "PostMixChild", post),
                     adjust, write("Child", "Version", "2")>>
           slots == IF selected.mode = "LFX_GFX" THEN populated \o Vacate(<<"sfx", "mfx", "efx">>)
                    ELSE Vacate(<<"lfx", "gfx">>) \o populated
           last == <<deleteIfThere("Fx", "disableEnhancements")>>
<1>2. populated \in Seq(Instructions)
  BY <1>1, PopulateType, Names, Joined
<1>3. pre \in Value /\ post \in Value
  BY OriginalType, Names
<1>4. adjust \in Instructions
  BY MadeOf, OwnThings, Names
<1>5. /\ createKey("ChildApos") \in Instructions /\ createKey("Child") \in Instructions
      /\ Call("fxProperties") \in Instructions
      /\ write("Child", "PreMixChild", pre) \in Instructions
      /\ write("Child", "PostMixChild", post) \in Instructions
      /\ write("Child", "Version", "2") \in Instructions
      /\ deleteIfThere("Fx", "disableEnhancements") \in Instructions
  BY <1>3, MadeOf, OwnThings, Names, CallsAre DEF Calls
<1>6. <<"sfx", "mfx", "efx">> \in Seq(Name) /\ <<"lfx", "gfx">> \in Seq(Name)
  <2>1. "sfx" \in Name /\ "mfx" \in Name /\ "efx" \in Name /\ "lfx" \in Name /\ "gfx" \in Name
    BY Names DEF allGuidValueNames
  <2> QED
    BY <2>1
<1>7. slots \in Seq(Instructions)
  BY <1>2, <1>6, VacateType, Joined
<1>8. installWithin = IF ~selected.pre /\ ~selected.post THEN <<>> ELSE head \o slots \o last
  BY DEF installWithin
<1> HIDE DEF populated, pre, post, adjust, slots
<1>9. head \in Seq(Instructions) /\ last \in Seq(Instructions) /\ <<>> \in Seq(Instructions)
  BY <1>4, <1>5
<1> HIDE DEF head, last
<1> QED
  BY <1>7, <1>8, <1>9, Joined

LEMMA UninstallType ==
  ASSUME InfoOK
  PROVE  uninstallWithin \in Seq(Instructions)
<1>1. ownedFxValueNames \in Seq(Name)
  <2>1. "sfx" \in Name /\ "mfx" \in Name /\ "efx" \in Name /\ "lfx" \in Name /\ "gfx" \in Name
    BY Names DEF allGuidValueNames
  <2>2. "sfxModes" \in Name /\ "mfxModes" \in Name /\ "efxModes" \in Name /\ "fxTitle" \in Name
    BY Names DEF Lists
  <2>3. Slots \in Seq(Name)
    BY <2>1 DEF Slots
  <2>4. <<"sfxModes", "mfxModes", "efxModes", "fxTitle">> \in Seq(Name)
    BY <2>2
  <2> QED
    BY <2>3, <2>4 DEF ownedFxValueNames
<1>2. ASSUME NEW s \in allGuidValueNames PROVE Restore(s) \in Seq(Instructions)
  <2>1. info.originals[s] \in Value
    BY DEF InfoOK
  <2>2. deleteIfThere("Fx", s) \in Instructions /\ write("Fx", s, info.originals[s]) \in Instructions
    BY <2>1, MadeOf, OwnThings, Names
  <2>3. /\ <<deleteIfThere("Fx", s)>> \in Seq(Instructions)
        /\ <<write("Fx", s, info.originals[s])>> \in Seq(Instructions)
        /\ <<>> \in Seq(Instructions)
    BY <2>2
  <2> QED
    BY <2>3 DEF Restore
<1>3. /\ Restore("lfx") \in Seq(Instructions) /\ Restore("gfx") \in Seq(Instructions)
      /\ Restore("sfx") \in Seq(Instructions) /\ Restore("mfx") \in Seq(Instructions)
      /\ Restore("efx") \in Seq(Instructions)
  BY <1>2 DEF allGuidValueNames
<1>4. Restore("lfx") \o Restore("gfx") \o Restore("sfx") \o Restore("mfx") \o Restore("efx")
        \in Seq(Instructions)
  BY <1>3, Joined
<1>5. /\ deleteIfEmpty("Fx") \in Instructions /\ deleteIfExists("Child") \in Instructions
      /\ deleteIfEmpty("ChildApos") \in Instructions
  BY MadeOf, OwnThings, Names
<1>6. /\ <<deleteIfEmpty("Fx")>> \in Seq(Instructions) /\ <<>> \in Seq(Instructions)
      /\ <<deleteIfExists("Child"), deleteIfEmpty("ChildApos")>> \in Seq(Instructions)
  BY <1>5
<1>7. Vacate(ownedFxValueNames) \o <<deleteIfEmpty("Fx")>> \in Seq(Instructions)
  BY <1>1, <1>6, VacateType, Joined
<1> QED
  BY <1>4, <1>6, <1>7, Joined DEF uninstallWithin

LEMMA AsioType == removeAsioEntry \in Seq(Instructions) /\ applyAsioEntry \in Seq(Instructions)
<1>1. /\ deleteIfExists("entry") \in Instructions /\ deleteIfExists("record") \in Instructions
      /\ Call("mayThrow") \in Instructions /\ createKey("record") \in Instructions
      /\ write("record", "TargetKind", "exclusive") \in Instructions
      /\ createKey("entry") \in Instructions
  BY MadeOf, OwnThings, Names, CallsAre DEF Calls
<1>2. removeAsioEntry \in Seq(Instructions)
  BY <1>1 DEF removeAsioEntry
<1>3. /\ <<Call("mayThrow"), createKey("record"), write("record", "TargetKind", "exclusive"),
           createKey("entry")>> \in Seq(Instructions)
      /\ <<>> \in Seq(Instructions)
  BY <1>1
<1> QED
  BY <1>2, <1>3, Joined DEF applyAsioEntry

LEMMA ExpansionType ==
  ASSUME InfoOK, reg \in Registries, NEW f \in Calls \ {"load", "createFx", "widen"}
  PROVE  Expansion(f) \in Seq(Instructions)
<1>1. <<>> \in Seq(Instructions)
  OBVIOUS
<1> QED
  BY <1>1, FxPropertiesType, InstallType, UninstallType, AsioType DEF Expansion, Calls

LEMMA OperationType == \A o \in DOMAIN Operation : Operation[o] \in Seq(Instructions)
<1>1. \A f \in Calls : Call(f) \in Instructions
  BY CallsAre
<1>2. /\ <<Call("installWithin"), Call("applyAsioEntry")>> \in Seq(Instructions)
      /\ <<Call("uninstallWithin"), Call("removeAsioEntry")>> \in Seq(Instructions)
      /\ <<Call("uninstallWithin"), Call("load"), Call("installWithin"), Call("applyAsioEntry")>>
           \in Seq(Instructions)
  BY <1>1 DEF Calls
<1>3. /\ DOMAIN Operation = {"install", "uninstall", "reinstall"}
      /\ Operation["install"] = <<Call("installWithin"), Call("applyAsioEntry")>>
      /\ Operation["uninstall"] = <<Call("uninstallWithin"), Call("removeAsioEntry")>>
      /\ Operation["reinstall"] = <<Call("uninstallWithin"), Call("load"), Call("installWithin"),
                                    Call("applyAsioEntry")>>
  BY DEF Operation
<1> QED
  BY <1>2, <1>3

----------------------------------------------------------------------------
(* Every step is one of the transaction, or leaves it alone. *)

LEMMA WindowsStep == DevInv /\ windows => \E r \in Registries : Elsewhere(r)
<1> SUFFICES ASSUME DevInv, windows PROVE \E r \in Registries : Elsewhere(r)
  OBVIOUS
<1> DEFINE r == [reg EXCEPT !["windows"] = Empty]
<1>1. reg \in Registries /\ reg["Fx"] # Gone /\ "windows" \in Key /\ Elsewhere(r)
  BY Names DEF windows, DevInv, TxInv, TxTypeOK
<1> QED
  BY <1>1 DEF Elsewhere

LEMMA StepIsTx == DevInv /\ [Next]_vars => [TxNext]_txVars
<1> SUFFICES ASSUME DevInv, [Next]_vars PROVE TxNext \/ UNCHANGED txVars
  OBVIOUS
<1>1. CASE Open \/ Leave \/ skip \/ enter \/ reload
  BY <1>1 DEF Open, Leave, skip, enter, reload
<1>2. CASE operate
  <2>1. Next1 \in Instructions
    BY <1>2 DEF DevInv, operate, Ready, Next1
  <2>2. Next1.when # "call" => Next1.op \in Operations
    BY <2>1 DEF Instructions, OwnOperations
  <2>3. createKey("Fx").op \in Operations
    BY Names DEF createKey, Operations
  <2> QED
    BY <1>2, <2>2, <2>3 DEF operate, TxNext
<1>3. CASE change \/ widen \/ throw \/ succeed
  BY <1>3 DEF change, widen, throw, succeed, TxNext
<1>4. CASE refuse
  <2>1. (Next1 = Call("createFx")) \in BOOLEAN
    BY Zenon
  <2> QED
    BY <1>4, <2>1, Zenon DEF refuse, TxNext
<1>5. CASE rollback
  BY <1>5 DEF rollback, TxNext
<1>6. CASE windows
  BY <1>6, WindowsStep DEF TxNext
<1>7. CASE \E operation \in DOMAIN Operation : Ask(operation)
  BY <1>7 DEF Ask, TxNext
<1>8. CASE UNCHANGED vars
  BY <1>8 DEF vars, txVars
<1> QED
  BY <1>1, <1>2, <1>3, <1>4, <1>5, <1>6, <1>7, <1>8 DEF Next, Run

----------------------------------------------------------------------------
(* The invariant *)

LEMMA InitDevInv == Init => DevInv
<1> SUFFICES ASSUME Init PROVE DevInv
  OBVIOUS
<1>1. TxInit /\ TxInv /\ reg \in Registries
  BY InitTxInv DEF Init, TxInit
<1>2. info = Loaded(reg) /\ selected = info.current /\ todo = <<>>
  BY DEF Init
<1>3. InfoOK
  BY <1>1, <1>2, LoadedType DEF InfoOK
<1> QED
  BY <1>1, <1>2, <1>3 DEF DevInv, Underway, TxInit

LEMMA TailType ==
  ASSUME todo \in Seq(Instructions), todo # <<>>
  PROVE  Tail(todo) \in Seq(Instructions) /\ Next1 \in Instructions
<1> QED
  BY DEF Next1

LEMMA TodoStep == DevInv /\ [Next]_vars => todo' \in Seq(Instructions)
<1> SUFFICES ASSUME DevInv, [Next]_vars PROVE todo' \in Seq(Instructions)
  OBVIOUS
<1>1. todo \in Seq(Instructions) /\ InfoOK /\ reg \in Registries /\ <<>> \in Seq(Instructions)
  BY DEF DevInv, TxInv, TxTypeOK
<1>2. CASE Open \/ Leave \/ operate \/ succeed \/ rollback \/ windows \/ UNCHANGED vars
  BY <1>1, <1>2 DEF Open, Leave, operate, succeed, rollback, windows, vars, devVars
<1>3. CASE skip \/ widen \/ reload
  BY <1>1, <1>3, TailType DEF skip, widen, reload, Ready
<1>4. CASE throw
  BY <1>1, <1>4 DEF throw
<1>5. CASE enter
  <2>1. Next1 \in Instructions /\ Tail(todo) \in Seq(Instructions)
    BY <1>1, <1>5, TailType DEF enter, Ready
  <2>2. Next1.f \in Calls \ {"load", "createFx", "widen"}
    BY <1>5, <2>1 DEF enter, Instructions
  <2> QED
    BY <1>1, <1>5, <2>1, <2>2, ExpansionType, Joined DEF enter
<1>6. CASE change \/ refuse
  <2>1. todo # <<>> /\ Tail(todo) \in Seq(Instructions)
    BY <1>1, <1>6, TailType DEF change, refuse, Change, Refuse, DevInv, Underway
  <2>2. Call("widen") \in Instructions /\ createKey("Fx") \in Instructions
    BY CallsAre, MadeOf, OwnThings, Names DEF Calls
  <2>3. <<Call("widen"), createKey("Fx")>> \in Seq(Instructions)
    BY <2>2
  <2>4. AfterRefusal \in Seq(Instructions)
    BY <1>1, <2>1, <2>3, Joined DEF AfterRefusal
  <2> QED
    BY <1>6, <2>1, <2>4 DEF change, refuse
<1>7. CASE \E operation \in DOMAIN Operation : Ask(operation)
  BY <1>7, OperationType DEF Ask
<1> QED
  BY <1>2, <1>3, <1>4, <1>5, <1>6, <1>7 DEF Next, Run

LEMMA UnderwayStep == DevInv /\ [Next]_vars => Underway'
<1> SUFFICES ASSUME DevInv, [Next]_vars PROVE Underway'
  OBVIOUS
<1>1. Underway /\ (status \in Closed => looked = Idle)
  BY DEF DevInv, TxInv, ClosedIsEmpty
<1>2. CASE Open \/ Leave \/ windows \/ UNCHANGED vars
  BY <1>1, <1>2 DEF Open, Leave, windows, Elsewhere, vars, txVars, devVars, Underway
<1>3. CASE skip \/ enter \/ reload
  BY <1>3 DEF skip, enter, reload, Ready, txVars, Underway
<1>4. CASE widen \/ throw
  BY <1>4 DEF widen, throw, Widen, Throw, Underway
<1>5. CASE operate
  BY <1>5 DEF operate, Ready, devVars, Underway
<1>6. CASE change \/ refuse
  BY <1>6 DEF change, refuse, Change, Refuse, Underway
<1>7. CASE succeed \/ rollback
  BY <1>1, <1>7 DEF succeed, rollback, commit, undo, rollbackEnds, devVars, Underway
<1>8. CASE \E operation \in DOMAIN Operation : Ask(operation)
  BY <1>1, <1>8 DEF Ask, Begin, Underway
<1> QED
  BY <1>2, <1>3, <1>4, <1>5, <1>6, <1>7, <1>8 DEF Next, Run

LEMMA InfoStep == DevInv /\ [Next]_vars => InfoOK'
<1> SUFFICES ASSUME DevInv, [Next]_vars PROVE InfoOK'
  OBVIOUS
<1>1. InfoOK /\ reg \in Registries
  BY DEF DevInv, TxInv, TxTypeOK
<1>2. CASE UNCHANGED <<info, selected>>
  BY <1>1, <1>2 DEF InfoOK
<1>3. CASE Open
  BY <1>1, <1>3, LoadedType DEF Open, InfoOK
<1>4. CASE reload
  <2>1. info' \in {Loaded(reg), info} /\ selected' = selected
    BY <1>4 DEF reload
  <2> QED
    BY <1>1, <2>1, LoadedType DEF InfoOK
<1>5. CASE \E operation \in DOMAIN Operation : Ask(operation)
  <2>1. info' = info /\ (selected' = selected \/ selected' \in Selections)
    BY <1>5 DEF Ask
  <2> QED
    BY <1>1, <2>1, DeviceTree DEF InfoOK, InstallState
<1>6. CASE skip \/ operate \/ change \/ refuse \/ widen \/ enter \/ throw
  BY <1>2, <1>6 DEF skip, operate, change, refuse, widen, enter, throw, devVars
<1>7. CASE Leave \/ succeed \/ rollback \/ windows \/ UNCHANGED vars
  BY <1>2, <1>7 DEF Leave, succeed, rollback, windows, vars, devVars
<1> QED
  BY <1>3, <1>4, <1>5, <1>6, <1>7 DEF Next, Run

LEMMA DevStep == DevInv /\ [Next]_vars => DevInv'
<1> SUFFICES ASSUME DevInv, [Next]_vars PROVE DevInv'
  OBVIOUS
<1>1. TxInv'
  BY StepIsTx, TxStep DEF DevInv
<1> QED
  BY <1>1, TodoStep, UnderwayStep, InfoStep DEF DevInv

(* An operation on an endpoint is one transaction: it begins, prepares each *)
(* inverse before the change, and commits or rolls back (DeviceAPOInfo,     *)
(* runReported), whatever the driver left and whatever is selected.         *)
THEOREM OperationsAreTransactions == Spec => TxSpec
<1>1. Init => DevInv /\ TxInit
  BY InitDevInv DEF Init
<1>2. DevInv /\ [Next]_vars => DevInv'
  BY DevStep
<1>3. DevInv /\ [Next]_vars => [TxNext]_txVars
  BY StepIsTx
<1> QED
  BY <1>1, <1>2, <1>3, PTL DEF Spec, TxSpec

(* A failed install, uninstall or reinstall leaves the registry as it was,  *)
(* unless somebody else changed it meanwhile (DeviceAPOInfo, failReport).   *)
THEOREM FailedOperationIsUndone == Spec => []RollbackRestores
<1> QED
  BY OperationsAreTransactions, RolledBackIsRestored, PTL

(* A failed operation's rollback leaves nothing of its own behind and takes *)
(* nobody's key away, also when other programs changed the registry         *)
(* meanwhile (DeviceAPOInfo, failReport; RegistryTransaction, undo).        *)
THEOREM OthersKeysAreLeft == Spec => []LeavesOnlyOthers
<1> QED
  BY OperationsAreTransactions, OthersAreLeft, PTL

(* Every instruction an operation comes to is well formed, and the registry *)
(* stays a tree (DeviceAPOInfo, installWithin and uninstallWithin).         *)
THEOREM OperationTypeCorrect == Spec => []TxTypeOK
<1> QED
  BY OperationsAreTransactions, TxTypeCorrect, PTL

----------------------------------------------------------------------------
(* What an operation makes of the driver's chain, and what load reads.     *)
(* Through the instructions still to do, a value of a key is owed to the   *)
(* registry when it is there and stays, or when one of them puts it there  *)
(* and no later one takes it away.                                         *)

Driver == device.driver

Holds(r, k, n, v) == IF v = None THEN ~HasValue(r, k, n) ELSE r[k] # Gone /\ r[k][n] = v

(* An instruction that leaves the value in place once it is through.        *)
Sets(i, k, n, v) ==
  \/ i.when = "always" /\ i.op.op = "write" /\ i.op.key = k /\ i.op.name = n /\ i.op.value = v
  \/ i.when = "there" /\ i.op.op = "deleteValue" /\ i.op.key = k /\ i.op.name = n /\ v = None
  \/ i.when = "exists" /\ i.op.op = "deleteKey" /\ i.op.key = k /\ v = None

(* One that may change it.                                                  *)
Disturbs(i, k, n, v) ==
  /\ i.when # "call" /\ i.op.key = k
  /\ \/ i.op.op = "write" /\ i.op.name = n /\ i.op.value # v
     \/ i.op.op = "deleteValue" /\ i.op.name = n /\ v # None
     \/ i.op.op = "deleteKey" /\ v # None

Pending(q, k, n, v) ==
  \E i \in DOMAIN q : Sets(q[i], k, n, v) /\ \A j \in DOMAIN q : j > i => ~Disturbs(q[j], k, n, v)
Spared(q, k, n, v) == \A i \in DOMAIN q : ~Disturbs(q[i], k, n, v)
Owed(q, r, k, n, v) == (Holds(r, k, n, v) /\ Spared(q, k, n, v)) \/ Pending(q, k, n, v)

----------------------------------------------------------------------------
(* The registry between operations *)

Target(s) == IF Driver = Gone THEN None ELSE Driver[s]

(* What the record of the child APOs may say of the driver's.               *)
KeyCode == [s \in allGuidValueNames |-> "!KEY"]
ValueCode == [s \in allGuidValueNames |-> IF Target(s) = None THEN "!VALUE" ELSE Target(s)]
Codes == {KeyCode, ValueCode}
Tells(e, r) == \/ e = KeyCode /\ Driver = Gone
               \/ e = ValueCode /\ (Driver = Gone => r["windows"] # Gone)

FxIsKept(r) == Driver # Gone => r["Fx"] # Gone
FxForWindows(r) == Driver = Gone => r["Fx"] = Gone \/ r["windows"] # Gone
FxIsOurs(r) == Driver = Gone /\ r["Fx"] # Gone => \A n \in Name \ OwnNames : r["Fx"][n] = None
FxOK(r) == FxIsKept(r) /\ FxIsOurs(r)

Clean(r) == FxForWindows(r) /\ \A s \in allGuidValueNames : Holds(r, "Fx", s, Target(s))
Installed(r) ==
  /\ foundAt(r) # {}
  /\ \E e \in Codes : Tells(e, r) /\ \A s \in allGuidValueNames : Holds(r, "Child", s, e[s])
AtRest(r) == FxOK(r) /\ (Clean(r) \/ Installed(r))

----------------------------------------------------------------------------
(* The operation under way *)

After == Tail(Operation[asked])
InstallCalls == Operation["install"]
CallsOnly(q, F) == \A i \in DOMAIN q : q[i].when = "call" => q[i].f \in F
NoCalls(q) == \A i \in DOMAIN q : q[i].when # "call"
KeepsFx(q) == \A i \in DOMAIN q : q[i].when # "call" => ~(q[i].op.op = "deleteKey" /\ q[i].op.key = "Fx")
MakesNothing(q) == \A i \in DOMAIN q : q[i].op.op # "createKey"

OnlyEntries(q) == \A i \in DOMAIN q : q[i].when # "call" => q[i].op.key \in {"record", "entry"}

UninstallTail == <<deleteIfExists("Child"), deleteIfEmpty("ChildApos")>>
AtUninstall(q, r) == asked \in {"uninstall", "reinstall"} /\ q = Operation[asked] /\ AtRest(r)

(* Taking away the key that was not there, and everything in it.            *)
Emptying(q, r) ==
  /\ asked \in {"uninstall", "reinstall"} /\ Driver = Gone
  /\ \E p \in Seq(Instructions) :
       /\ q = p \o (<<deleteIfEmpty("Fx")>> \o (UninstallTail \o After))
       /\ NoCalls(p)
       /\ \A n \in OwnNames : Owed(p, r, "Fx", n, None)
Restoring(q, r) ==
  /\ asked \in {"uninstall", "reinstall"} /\ FxForWindows(r)
  /\ \E p \in Seq(Instructions) :
       /\ q = p \o After
       /\ NoCalls(p) /\ KeepsFx(p) /\ MakesNothing(p)
       /\ \A s \in allGuidValueNames : Owed(p, r, "Fx", s, Target(s))

AtInstall(q, r) == asked \in {"install", "reinstall"} /\ q = InstallCalls /\ Clean(r)

Selected == selected.pre \/ selected.post
populated == Populate(selected.pre, preSlot, "preMix")
               \o Populate(selected.post /\ ~device.input, postSlot, "postMix")
ChildRecord ==
  <<write("Child", "PreMixChild", IF selected.usePre THEN getOriginalAPOPreMix ELSE ""),
    write("Child", "PostMixChild", IF selected.usePost THEN getOriginalAPOPostMix ELSE ""),
    IF selected.adjust THEN deleteIfThere("Child", "DisableAutomaticAdjustment")
                       ELSE write("Child", "DisableAutomaticAdjustment", "true"),
    write("Child", "Version", "2")>>
Filling ==
  ChildRecord
    \o (IF selected.mode = "LFX_GFX" THEN populated \o Vacate(<<"sfx", "mfx", "efx">>)
        ELSE Vacate(<<"lfx", "gfx">>) \o populated)
    \o <<deleteIfThere("Fx", "disableEnhancements")>>
ToFill == <<Call("fxProperties")>> \o Filling \o <<Call("applyAsioEntry")>>
Making(q, r) ==
  /\ asked \in {"install", "reinstall"} /\ Selected /\ Clean(r)
  /\ q \in {<<createKey("ChildApos"), createKey("Child")>> \o ToFill,
            <<createKey("Child")>> \o ToFill, ToFill}

(* What a slot is to hold once the selection is installed.                  *)
Chosen(s) == IF selected.pre /\ s = preSlot THEN "preMix"
             ELSE IF selected.post /\ s = postSlot THEN "postMix" ELSE None
PutsOurs(i, s) == /\ i.when # "call" /\ i.op.op = "write"
                  /\ i.op.key = "Fx" /\ i.op.name = s /\ i.op.value \in Ours
NeverOurs(q, r, s) == /\ r["Fx"] # Gone => r["Fx"][s] \notin Ours
                      /\ \A i \in DOMAIN q : ~PutsOurs(q[i], s)
EntryLast(q) == \A i \in DOMAIN q : q[i] = Call("applyAsioEntry") => i = Len(q)
EntryComes(q) == q # <<>> /\ q[Len(q)] = Call("applyAsioEntry")
Filled(q, r) ==
  /\ \E e \in Codes : Tells(e, r) /\ \A s \in allGuidValueNames : Owed(q, r, "Child", s, e[s])
  /\ \A s \in allGuidValueNames : IF Chosen(s) # None THEN Owed(q, r, "Fx", s, Chosen(s))
                                                      ELSE NeverOurs(q, r, s)
  /\ Owed(q, r, "Child", "DisableAutomaticAdjustment", IF selected.adjust THEN None ELSE "true")
  /\ ~selected.usePre => Owed(q, r, "Child", "PreMixChild", "")
  /\ ~selected.usePost => Owed(q, r, "Child", "PostMixChild", "")
  /\ \/ EntryComes(q)
     \/ Owed(q, r, "record", "TargetKind", IF selected.exclusive THEN "exclusive" ELSE None)
FillingIn(q, r) ==
  /\ asked \in {"install", "reinstall"} /\ Selected
  /\ KeepsFx(q) /\ CallsOnly(q, {"mayThrow", "createFx", "widen", "applyAsioEntry"})
  /\ EntryLast(q)
  /\ Filled(q, r)

Finishing(q, r) ==
  /\ asked # "uninstall" => ~Selected
  /\ Clean(r)
  /\ OnlyEntries(q) /\ CallsOnly(q, {"removeAsioEntry", "applyAsioEntry", "mayThrow"})

(* How far the operation is.                                                *)
Work(q, r) ==
  \/ AtUninstall(q, r) \/ Emptying(q, r) \/ Restoring(q, r)
  \/ AtInstall(q, r) \/ Making(q, r) \/ FillingIn(q, r) \/ Finishing(q, r)

----------------------------------------------------------------------------
(* The invariant *)

SessionOK ==
  /\ device \in Devices /\ failures = 0
  /\ session \in {"closed", "open", "busy", "testing"}
  /\ asked \in DOMAIN Operation \cup {"none"}
  /\ selected.pre \in BOOLEAN /\ selected.post \in BOOLEAN
  /\ selected.adjust \in BOOLEAN /\ selected.exclusive \in BOOLEAN
  /\ session = "busy" <=> status \notin Closed
  /\ session = "busy" => asked # "none" /\ (asked # "uninstall" => (selected.post => ~device.input))

(* Nobody but Windows writes to the registry, and only its own key.         *)
OnlyWindows ==
  foreign \subseteq {"windows"} /\ ("windows" \in foreign => reg["windows"] # Gone)
KeysOf(e) == CASE e.kind = "Nothing" -> {}
              [] e.kind = "DeleteKeys" -> e.keys
              [] OTHER -> {e.key}
EntriesOwn == /\ \A i \in 1..Len(journal) : "windows" \notin KeysOf(journal[i])
              /\ looked # Idle => "windows" \notin KeysOf(looked.entry)

LookedNext == looked # Idle =>
                \/ Next1.when # "call" /\ looked.op = Next1.op
                \/ Next1 = Call("createFx") /\ looked.op = createKey("Fx").op

(* The DeviceAPOInfo says of the driver's chain what there is to say.       *)
InfoTells(r) == \E e \in Codes : Tells(e, r) /\ info.originals = e
StartOK == session = "busy" => AtRest(Start)
RestOK == session # "busy" => AtRest(reg)
Told == session \in {"open", "testing"} \/ status = "open" => InfoTells(reg)
Shown == session = "open" => (info.installed <=> foundAt(reg) # {}) /\ asked = "none"
Working == status = "open" => FxOK(reg) /\ Work(todo, reg)
Uninstalled == status = "committed" /\ session # "busy" /\ asked = "uninstall" => Clean(reg)

(* What stands at every moment, within an operation and between two.        *)
Standing == RestOK /\ Told /\ Shown /\ Working /\ Uninstalled /\ ReadsBack

ChainInv == SessionOK /\ OnlyWindows /\ EntriesOwn /\ LookedNext /\ StartOK /\ Standing

----------------------------------------------------------------------------
(* Sequences of instructions *)

LEMMA TailOwed ==
  ASSUME NEW q \in Seq(Instructions), q # <<>>, NEW r, NEW t, NEW k, NEW n, NEW v,
         Owed(q, r, k, n, v),
         Sets(Head(q), k, n, v) => Holds(t, k, n, v),
         ~Disturbs(Head(q), k, n, v) /\ Holds(r, k, n, v) => Holds(t, k, n, v)
  PROVE  Owed(Tail(q), t, k, n, v)
<1>1. /\ Tail(q) \in Seq(Instructions) /\ Len(Tail(q)) = Len(q) - 1 /\ Len(q) \in Nat \ {0}
      /\ Head(q) = q[1] /\ DOMAIN q = 1..Len(q) /\ DOMAIN Tail(q) = 1..(Len(q) - 1)
      /\ \A j \in 1..(Len(q) - 1) : Tail(q)[j] = q[j + 1]
  OBVIOUS
<1>2. CASE Holds(r, k, n, v) /\ Spared(q, k, n, v)
  <2>1. Spared(Tail(q), k, n, v)
    BY <1>1, <1>2 DEF Spared
  <2>2. Holds(t, k, n, v)
    BY <1>1, <1>2 DEF Spared
  <2> QED
    BY <2>1, <2>2 DEF Owed
<1>3. CASE Pending(q, k, n, v)
  <2>1. PICK i \in 1..Len(q) : Sets(q[i], k, n, v) /\ \A j \in 1..Len(q) : j > i => ~Disturbs(q[j], k, n, v)
    BY <1>1, <1>3 DEF Pending
  <2>2. CASE i = 1
    <3>1. \A j \in 1..(Len(q) - 1) : ~Disturbs(Tail(q)[j], k, n, v)
      BY <1>1, <2>1, <2>2
    <3> QED
      BY <1>1, <2>1, <2>2, <3>1 DEF Owed, Spared
  <2>3. CASE i # 1
    <3>1. i - 1 \in 1..(Len(q) - 1) /\ Tail(q)[i - 1] = q[i]
      BY <1>1, <2>3
    <3>2. \A j \in 1..(Len(q) - 1) : j > i - 1 => ~Disturbs(Tail(q)[j], k, n, v)
      BY <1>1, <2>1
    <3>3. Pending(Tail(q), k, n, v)
      BY <1>1, <2>1, <3>1, <3>2 DEF Pending
    <3> QED
      BY <3>3 DEF Owed
  <2> QED
    BY <2>2, <2>3
<1> QED
  BY <1>2, <1>3 DEF Owed

LEMMA TailAll ==
  ASSUME NEW q \in Seq(Instructions), q # <<>>
  PROVE  /\ NoCalls(q) => NoCalls(Tail(q)) /\ Head(q).when # "call"
         /\ KeepsFx(q) => /\ KeepsFx(Tail(q))
                          /\ Head(q).when # "call" =>
                               ~(Head(q).op.op = "deleteKey" /\ Head(q).op.key = "Fx")
         /\ MakesNothing(q) => MakesNothing(Tail(q)) /\ Head(q).op.op # "createKey"
         /\ OnlyEntries(q) => /\ OnlyEntries(Tail(q))
                              /\ Head(q).when # "call" => Head(q).op.key \in {"record", "entry"}
         /\ \A F : CallsOnly(q, F) => CallsOnly(Tail(q), F) /\ (Head(q).when = "call" => Head(q).f \in F)
         /\ EntryLast(q) => EntryLast(Tail(q)) /\ (Head(q) = Call("applyAsioEntry") => Tail(q) = <<>>)
         /\ EntryComes(q) => EntryComes(Tail(q)) \/ Head(q) = Call("applyAsioEntry")
<1>1. /\ Tail(q) \in Seq(Instructions) /\ Len(q) \in Nat \ {0} /\ Len(Tail(q)) = Len(q) - 1
      /\ Head(q) = q[1] /\ DOMAIN q = 1..Len(q) /\ DOMAIN Tail(q) = 1..(Len(q) - 1)
      /\ \A j \in 1..(Len(q) - 1) : Tail(q)[j] = q[j + 1]
  OBVIOUS
<1>0. Len(q) = 1 => Tail(q) = <<>>
  BY <1>1, EmptySeq
<1>2. 1 \in DOMAIN q /\ \A j \in DOMAIN Tail(q) : j + 1 \in DOMAIN q /\ Tail(q)[j] = q[j + 1]
  BY <1>1
<1>3. NoCalls(q) => NoCalls(Tail(q)) /\ Head(q).when # "call"
  BY <1>1, <1>2 DEF NoCalls
<1>4. KeepsFx(q) => /\ KeepsFx(Tail(q))
                    /\ Head(q).when # "call" =>
                         ~(Head(q).op.op = "deleteKey" /\ Head(q).op.key = "Fx")
  BY <1>1, <1>2 DEF KeepsFx
<1>5. MakesNothing(q) => MakesNothing(Tail(q)) /\ Head(q).op.op # "createKey"
  BY <1>1, <1>2 DEF MakesNothing
<1>6. OnlyEntries(q) => /\ OnlyEntries(Tail(q))
                        /\ Head(q).when # "call" => Head(q).op.key \in {"record", "entry"}
  BY <1>1, <1>2 DEF OnlyEntries
<1>7. \A F : CallsOnly(q, F) => CallsOnly(Tail(q), F) /\ (Head(q).when = "call" => Head(q).f \in F)
  BY <1>1, <1>2 DEF CallsOnly
<1>8. EntryLast(q) => EntryLast(Tail(q)) /\ (Head(q) = Call("applyAsioEntry") => Tail(q) = <<>>)
  <2> HAVE EntryLast(q)
  <2>1. Head(q) = Call("applyAsioEntry") => Len(q) = 1
    BY <1>1, <1>2 DEF EntryLast
  <2>2. \A j \in DOMAIN Tail(q) : Tail(q)[j] = Call("applyAsioEntry") => j + 1 = Len(q)
    BY <1>2 DEF EntryLast
  <2>3. EntryLast(Tail(q))
    BY <1>1, <2>2 DEF EntryLast
  <2> QED
    BY <1>0, <2>1, <2>3
<1>9. ASSUME EntryComes(q), Head(q) # Call("applyAsioEntry") PROVE EntryComes(Tail(q))
  <2>1. Len(q) # 1 /\ q[Len(q)] = Call("applyAsioEntry")
    BY <1>1, <1>9 DEF EntryComes
  <2>2. Len(Tail(q)) \in 1..(Len(q) - 1) /\ Tail(q)[Len(Tail(q))] = q[Len(q)]
    BY <1>1, <2>1
  <2>4. Len(Tail(q)) # 0
    BY <1>1, <2>1
  <2>5. \A u : Len(u) # 0 => u # <<>>
    BY EmptySeq
  <2>3. Tail(q) # <<>>
    BY <2>4, <2>5, Zenon
  <2> QED
    BY <2>1, <2>2, <2>3 DEF EntryComes
<1> QED
  BY <1>3, <1>4, <1>5, <1>6, <1>7, <1>8, <1>9

(* What is owed of a part is owed of the whole.                             *)
LEMMA JoinIndices ==
  ASSUME NEW p \in Seq(Instructions), NEW q \in Seq(Instructions)
  PROVE  /\ DOMAIN p = 1..Len(p) /\ DOMAIN q = 1..Len(q) /\ DOMAIN (p \o q) = 1..(Len(p) + Len(q))
         /\ Len(p) \in Nat /\ Len(q) \in Nat
         /\ \A i \in DOMAIN p : i \in DOMAIN (p \o q) /\ (p \o q)[i] = p[i]
         /\ \A i \in DOMAIN q : Len(p) + i \in DOMAIN (p \o q) /\ (p \o q)[Len(p) + i] = q[i]
         /\ \A i \in DOMAIN (p \o q) : \/ i \in DOMAIN p /\ (p \o q)[i] = p[i]
                                       \/ i > Len(p) /\ i - Len(p) \in DOMAIN q
                                            /\ (p \o q)[i] = q[i - Len(p)]
<1> QED
  OBVIOUS

LEMMA JoinSpared ==
  ASSUME NEW p \in Seq(Instructions), NEW q \in Seq(Instructions), NEW k, NEW n, NEW v,
         Spared(p, k, n, v), Spared(q, k, n, v)
  PROVE  Spared(p \o q, k, n, v)
<1> QED
  BY JoinIndices DEF Spared

LEMMA JoinEarly ==
  ASSUME NEW p \in Seq(Instructions), NEW q \in Seq(Instructions), NEW k, NEW n, NEW v,
         Pending(p, k, n, v), Spared(q, k, n, v)
  PROVE  Pending(p \o q, k, n, v)
<1>1. PICK i \in DOMAIN p : Sets(p[i], k, n, v) /\ \A j \in DOMAIN p : j > i => ~Disturbs(p[j], k, n, v)
  BY DEF Pending
<1>2. i \in DOMAIN (p \o q) /\ (p \o q)[i] = p[i]
  BY JoinIndices
<1>3. \A j \in DOMAIN (p \o q) : j > i => ~Disturbs((p \o q)[j], k, n, v)
  BY <1>1, JoinIndices DEF Spared
<1> QED
  BY <1>1, <1>2, <1>3 DEF Pending

LEMMA JoinLate ==
  ASSUME NEW p \in Seq(Instructions), NEW q \in Seq(Instructions), NEW k, NEW n, NEW v,
         Pending(q, k, n, v)
  PROVE  Pending(p \o q, k, n, v)
<1>1. PICK i \in DOMAIN q : Sets(q[i], k, n, v) /\ \A j \in DOMAIN q : j > i => ~Disturbs(q[j], k, n, v)
  BY DEF Pending
<1>2. Len(p) + i \in DOMAIN (p \o q) /\ (p \o q)[Len(p) + i] = q[i] /\ i \in Nat /\ Len(p) \in Nat
  BY JoinIndices
<1>3. \A j \in DOMAIN (p \o q) : j > Len(p) + i => ~Disturbs((p \o q)[j], k, n, v)
  <2> TAKE j \in DOMAIN (p \o q)
  <2> HAVE j > Len(p) + i
  <2>1. j - Len(p) \in DOMAIN q /\ (p \o q)[j] = q[j - Len(p)] /\ j \in Int
    BY <1>2, JoinIndices
  <2>2. j - Len(p) > i
    BY <1>2, <2>1, JoinIndices
  <2> QED
    BY <1>1, <2>1, <2>2
<1> QED
  BY <1>1, <1>2, <1>3 DEF Pending

(* A conversion that a whole sequence is spared, from each instruction.     *)
LEMMA JoinOwed ==
  ASSUME NEW p \in Seq(Instructions), NEW q \in Seq(Instructions), NEW r, NEW k, NEW n, NEW v,
         Owed(p, r, k, n, v), Spared(q, k, n, v)
  PROVE  Owed(p \o q, r, k, n, v)
<1> QED
  BY JoinSpared, JoinEarly DEF Owed

LEMMA JoinAll ==
  ASSUME NEW p \in Seq(Instructions), NEW q \in Seq(Instructions)
  PROVE  /\ NoCalls(p) /\ NoCalls(q) => NoCalls(p \o q)
         /\ KeepsFx(p) /\ KeepsFx(q) => KeepsFx(p \o q)
         /\ MakesNothing(p) /\ MakesNothing(q) => MakesNothing(p \o q)
         /\ OnlyEntries(p) /\ OnlyEntries(q) => OnlyEntries(p \o q)
         /\ \A F : CallsOnly(p, F) /\ CallsOnly(q, F) => CallsOnly(p \o q, F)
         /\ \A F : CallsOnly(p, F) /\ "applyAsioEntry" \notin F /\ EntryLast(q) => EntryLast(p \o q)
         /\ EntryComes(q) => EntryComes(p \o q)
         /\ \A s : (\A i \in DOMAIN p : ~PutsOurs(p[i], s)) /\ (\A i \in DOMAIN q : ~PutsOurs(q[i], s))
                  => \A i \in DOMAIN (p \o q) : ~PutsOurs((p \o q)[i], s)
<1>1. NoCalls(p) /\ NoCalls(q) => NoCalls(p \o q)
  BY JoinIndices DEF NoCalls
<1>2. KeepsFx(p) /\ KeepsFx(q) => KeepsFx(p \o q)
  BY JoinIndices DEF KeepsFx
<1>3. MakesNothing(p) /\ MakesNothing(q) => MakesNothing(p \o q)
  BY JoinIndices DEF MakesNothing
<1>4. OnlyEntries(p) /\ OnlyEntries(q) => OnlyEntries(p \o q)
  BY JoinIndices DEF OnlyEntries
<1>5. \A F : CallsOnly(p, F) /\ CallsOnly(q, F) => CallsOnly(p \o q, F)
  BY JoinIndices DEF CallsOnly
<1>6. ASSUME NEW F, CallsOnly(p, F), "applyAsioEntry" \notin F, EntryLast(q) PROVE EntryLast(p \o q)
  <2> SUFFICES ASSUME NEW i \in DOMAIN (p \o q), (p \o q)[i] = Call("applyAsioEntry")
               PROVE  i = Len(p \o q)
    BY DEF EntryLast
  <2>1. \A j \in DOMAIN p : p[j] # Call("applyAsioEntry")
    BY <1>6 DEF CallsOnly, Call
  <2>2. i - Len(p) \in DOMAIN q /\ q[i - Len(p)] = Call("applyAsioEntry")
    BY <2>1, JoinIndices
  <2>3. i - Len(p) = Len(q)
    BY <1>6, <2>2 DEF EntryLast
  <2> QED
    BY <2>3
<1>7. ASSUME EntryComes(q) PROVE EntryComes(p \o q)
  <2>1. Len(q) \in DOMAIN q /\ q[Len(q)] = Call("applyAsioEntry")
    BY <1>7 DEF EntryComes
  <2>2. (p \o q)[Len(p) + Len(q)] = q[Len(q)] /\ Len(p \o q) = Len(p) + Len(q)
    BY <2>1, JoinIndices
  <2>3. p \o q # <<>>
    BY <1>7 DEF EntryComes
  <2> QED
    BY <2>1, <2>2, <2>3 DEF EntryComes
<1>8. ASSUME NEW s, \A i \in DOMAIN p : ~PutsOurs(p[i], s), \A i \in DOMAIN q : ~PutsOurs(q[i], s)
      PROVE  \A i \in DOMAIN (p \o q) : ~PutsOurs((p \o q)[i], s)
  BY <1>8, JoinIndices
<1> QED
  BY <1>1, <1>2, <1>3, <1>4, <1>5, <1>6, <1>7, <1>8

----------------------------------------------------------------------------
(* What an operation does *)

LEMMA AppliedHolds ==
  ASSUME NEW r \in Registries, NEW o \in OwnOperations, Accepts(r, o),
         NEW k \in OwnKeys, NEW n \in Name, NEW v \in Value \cup {None}, Holds(r, k, n, v),
         ~(/\ o.key = k
           /\ \/ o.op = "write" /\ o.name = n /\ o.value # v
              \/ o.op = "deleteValue" /\ o.name = n /\ v # None
              \/ o.op = "deleteKey" /\ v # None)
  PROVE  Holds(Applied(r, o), k, n, v)
<1>1. o \in Operations /\ o.key \in Key /\ k \in Key
  BY Names DEF OwnOperations, OwnKeys
<1>2. r \in [Key -> Contents \cup {Gone}]
  BY DEF Registries
<1>3. CASE o.op \in {"write", "deleteValue"}
  <2> DEFINE w == IF o.op = "write" THEN o.value ELSE None
  <2>1. r[o.key] # Gone /\ o.name \in Name /\ w \in Value \cup {None}
        /\ Applied(r, o) = [r EXCEPT ![o.key][o.name] = w]
    BY <1>1, <1>3 DEF Operations, Accepts, HasValue, Applied
  <2> HIDE DEF w
  <2>2. Applied(r, o)[o.key] = [r[o.key] EXCEPT ![o.name] = w] /\ Applied(r, o)[o.key] # Gone
    BY <1>1, <2>1, StoreCloses
  <2>3. \A j \in Key : j # o.key => Applied(r, o)[j] = r[j]
    BY <1>1, <1>2, <2>1
  <2>4. r[o.key] \in Contents
    BY <1>1, <1>2, <2>1
  <2>5. CASE o.key # k
    BY <1>1, <2>3, <2>5 DEF Holds, HasValue
  <2>6. CASE o.key = k
    <3>1. o.name = n => w = v
      BY <1>3, <2>6 DEF w
    <3>2. Applied(r, o)[k][n] = IF o.name = n THEN w ELSE r[k][n]
      BY <2>2, <2>4, <2>6 DEF Contents
    <3> QED
      BY <2>1, <2>2, <2>6, <3>1, <3>2 DEF Holds, HasValue
  <2> QED
    BY <2>5, <2>6
<1>4. CASE o.op = "createKey"
  <2>1. Applied(r, o)[k] = IF k \in Levels[o.key] /\ r[k] = Gone THEN Empty ELSE r[k]
    BY <1>1, <1>4 DEF Applied
  <2>2. Empty[n] = None
    BY DEF Empty
  <2> QED
    BY <2>1, <2>2 DEF Holds, HasValue
<1>5. CASE o.op = "deleteKey"
  <2>1. Applied(r, o)[k] = IF k = o.key THEN Gone ELSE r[k]
    BY <1>1, <1>2, <1>5 DEF Applied
  <2> QED
    BY <1>5, <2>1 DEF Holds, HasValue
<1> QED
  BY <1>1, <1>3, <1>4, <1>5 DEF Operations

LEMMA AppliedSets ==
  ASSUME NEW r \in Registries, NEW i \in Instructions, i.when # "call", Accepts(r, i.op),
         NEW k \in OwnKeys, NEW n \in Name, NEW v \in Value \cup {None}, Sets(i, k, n, v)
  PROVE  Holds(Applied(r, i.op), k, n, v)
<1> DEFINE o == i.op
<1>1. o \in OwnOperations /\ o \in Operations /\ o.key \in Key /\ k \in Key
  BY Names DEF Instructions, OwnOperations, OwnKeys
<1>2. r \in [Key -> Contents \cup {Gone}]
  BY DEF Registries
<1>3. CASE o.op \in {"write", "deleteValue"}
  <2> DEFINE w == IF o.op = "write" THEN o.value ELSE None
  <2>1. r[o.key] # Gone /\ o.name \in Name /\ w \in Value \cup {None}
        /\ Applied(r, o) = [r EXCEPT ![o.key][o.name] = w]
    BY <1>1, <1>3 DEF Operations, Accepts, HasValue, Applied
  <2>2. o.key = k /\ o.name = n /\ w = v
    BY <1>3 DEF Sets
  <2> HIDE DEF w, o
  <2>3. Applied(r, o)[k] = [r[k] EXCEPT ![n] = v] /\ Applied(r, o)[k] # Gone
    BY <1>1, <2>1, <2>2, StoreCloses
  <2>4. r[k] \in Contents
    BY <1>1, <1>2, <2>1, <2>2
  <2>5. Applied(r, o)[k][n] = v
    BY <2>3, <2>4 DEF Contents
  <2>6. Holds(Applied(r, o), k, n, v)
    BY <2>3, <2>5 DEF Holds, HasValue
  <2> QED
    BY <2>6 DEF o
<1>4. CASE o.op = "deleteKey"
  <2>1. o.key = k /\ v = None
    BY <1>4 DEF Sets
  <2>2. Applied(r, o)[k] = Gone
    BY <1>1, <1>2, <1>4, <2>1 DEF Applied
  <2> QED
    BY <2>1, <2>2 DEF Holds, HasValue
<1>5. CASE o.op = "createKey"
  BY <1>5 DEF Sets
<1> QED
  BY <1>1, <1>3, <1>4, <1>5 DEF Operations

LEMMA Paths ==
  /\ \A k \in OwnKeys : "windows" \notin Levels[k] /\ ("Fx" \in Levels[k] => k = "Fx")
  /\ \A k \in Key : "Fx" \in Levels[k] => k \in {"Fx", "windows"}
  /\ "windows" \notin OwnKeys /\ OwnKeys \subseteq Key /\ "Fx" \in OwnKeys /\ "Child" \in OwnKeys
  /\ "record" \in OwnKeys
<1>1. /\ Levels["Fx"] = {"Fx"} /\ Levels["ChildApos"] = {"ChildApos"}
      /\ Levels["Child"] = {"Child", "ChildApos"} /\ Levels["record"] = {"record", "Asio"}
      /\ Levels["entry"] = {"entry"} /\ Levels["Asio"] = {"Asio"}
      /\ Levels["windows"] = {"windows", "Fx"}
  BY DeviceTree DEF DeviceLevels, DeviceKeys
<1>2. Key = {"Fx", "windows", "ChildApos", "Child", "Asio", "record", "entry"}
  BY DeviceTree DEF DeviceKeys
<1> QED
  BY <1>1, <1>2 DEF OwnKeys

(* It leaves Windows' key and what is not its own alone.                    *)
LEMMA AppliedElsewhere ==
  ASSUME NEW r \in Registries, NEW o \in OwnOperations, Accepts(r, o)
  PROVE  /\ Applied(r, o)["windows"] = r["windows"]
         /\ o.key # "Fx" => Applied(r, o)["Fx"] = r["Fx"]
         /\ ~(o.op = "deleteKey" /\ o.key = "Fx") /\ r["Fx"] # Gone => Applied(r, o)["Fx"] # Gone
         /\ o.op # "createKey" /\ r["Fx"] = Gone => Applied(r, o)["Fx"] = Gone
         /\ o.op = "deleteKey" /\ o.key = "Fx" => Applied(r, o)["Fx"] = Gone
         /\ FxIsOurs(r) => FxIsOurs(Applied(r, o))
         /\ \A s \in allGuidValueNames :
              /\ r["Fx"] # Gone => r["Fx"][s] \notin Ours
              /\ ~(o.op = "write" /\ o.key = "Fx" /\ o.name = s /\ o.value \in Ours)
              => (Applied(r, o)["Fx"] # Gone => Applied(r, o)["Fx"][s] \notin Ours)
<1>1. o \in Operations /\ o.key \in Key /\ "Fx" \in Key /\ "windows" \in Key /\ o.key # "windows"
      /\ o.key \in OwnKeys
  BY Paths, Names DEF OwnOperations
<1>2. r \in [Key -> Contents \cup {Gone}]
  BY DEF Registries
<1>3. \A s \in allGuidValueNames : s \in Name /\ None \notin Ours
  BY Names, Sentinels DEF Ours
<1>4. CASE o.op \in {"write", "deleteValue"}
  <2> DEFINE w == IF o.op = "write" THEN o.value ELSE None
             t == Applied(r, o)
  <2>1. r[o.key] # Gone /\ o.name \in Name /\ w \in Value \cup {None}
        /\ t = [r EXCEPT ![o.key][o.name] = w]
    BY <1>1, <1>4 DEF Operations, Accepts, HasValue, Applied
  <2>0. /\ o.op = "write" => w = o.value
        /\ o.op # "write" => w = None
    OBVIOUS
  <2> HIDE DEF w, t
  <2>2. t[o.key] = [r[o.key] EXCEPT ![o.name] = w] /\ t[o.key] # Gone
    BY <1>1, <2>1, StoreCloses
  <2>3. \A j \in Key : j # o.key => t[j] = r[j]
    BY <1>1, <1>2, <2>1
  <2>4. r[o.key] \in Contents
    BY <1>1, <1>2, <2>1
  <2>5. /\ t["windows"] = r["windows"] /\ (o.key # "Fx" => t["Fx"] = r["Fx"])
        /\ (t["Fx"] # Gone <=> r["Fx"] # Gone)
    BY <1>1, <2>1, <2>2, <2>3
  <2>6. o.key = "Fx" => \A n \in Name : t["Fx"][n] = IF n = o.name THEN w ELSE r["Fx"][n]
    BY <2>2, <2>4 DEF Contents
  <2>7. o.key = "Fx" /\ o.op = "write" => o.name \in OwnNames
    BY DEF OwnOperations, Writable
  <2>8. FxIsOurs(r) => FxIsOurs(t)
    BY <1>4, <2>0, <2>5, <2>6, <2>7 DEF FxIsOurs
  <2>9. ASSUME NEW s \in allGuidValueNames, r["Fx"] # Gone => r["Fx"][s] \notin Ours,
               ~(o.op = "write" /\ o.key = "Fx" /\ o.name = s /\ o.value \in Ours), t["Fx"] # Gone
        PROVE  t["Fx"][s] \notin Ours
    BY <1>3, <1>4, <2>0, <2>5, <2>6, <2>9
  <2>10. o.op # "deleteKey"
    BY <1>4
  <2> QED
    BY <1>4, <2>5, <2>8, <2>9, <2>10 DEF t
<1>5. CASE o.op = "createKey"
  <2>1. \A j \in Key : Applied(r, o)[j] = IF j \in Levels[o.key] /\ r[j] = Gone THEN Empty ELSE r[j]
    BY <1>1, <1>5 DEF Applied
  <2>2. \A n \in Name : Empty[n] = None
    BY DEF Empty
  <2>3. Empty # Gone
    BY Sentinels DEF Empty, Contents
  <2>4. "windows" \notin Levels[o.key] /\ ("Fx" \in Levels[o.key] => o.key = "Fx")
    BY <1>1, Paths
  <2> QED
    BY <1>1, <1>3, <1>5, <2>1, <2>2, <2>3, <2>4 DEF FxIsOurs
<1>6. CASE o.op = "deleteKey"
  <2>1. \A j \in Key : Applied(r, o)[j] = IF j = o.key THEN Gone ELSE r[j]
    BY <1>1, <1>2, <1>6 DEF Applied
  <2> QED
    BY <1>1, <1>6, <2>1 DEF FxIsOurs
<1> QED
  BY <1>1, <1>4, <1>5, <1>6 DEF Operations

----------------------------------------------------------------------------
(* A step that is through with an instruction *)

Through(i, r, t) ==
  /\ \A k \in OwnKeys, n \in Name, v \in Value \cup {None} :
       /\ Sets(i, k, n, v) => Holds(t, k, n, v)
       /\ ~Disturbs(i, k, n, v) /\ Holds(r, k, n, v) => Holds(t, k, n, v)
  /\ t["windows"] = r["windows"]
  /\ i.when # "call" /\ i.op.key # "Fx" => t["Fx"] = r["Fx"]
  /\ (i.when # "call" => ~(i.op.op = "deleteKey" /\ i.op.key = "Fx")) /\ r["Fx"] # Gone => t["Fx"] # Gone
  /\ i.when # "call" /\ i.op.op # "createKey" /\ r["Fx"] = Gone => t["Fx"] = Gone
  /\ FxIsOurs(r) => FxIsOurs(t)
  /\ \A s \in allGuidValueNames :
       (r["Fx"] # Gone => r["Fx"][s] \notin Ours) /\ ~PutsOurs(i, s)
         => (t["Fx"] # Gone => t["Fx"][s] \notin Ours)
  /\ /\ i = deleteIfEmpty("Fx") /\ Driver = Gone /\ FxIsOurs(r)
     /\ \A n \in OwnNames : Holds(r, "Fx", n, None)
     => FxForWindows(t)

LEMMA SkipThrough ==
  ASSUME DevInv, skip
  PROVE  Through(Next1, reg, reg')
<1>1. Next1.when # "call" /\ ~Wanted(Next1) /\ reg' = reg
  BY DEF skip, txVars
<1>2. ASSUME NEW k \in OwnKeys, NEW n \in Name, NEW v \in Value \cup {None}, Sets(Next1, k, n, v)
      PROVE  Holds(reg, k, n, v)
  BY <1>1, <1>2 DEF Sets, Wanted, Holds, HasValue
<1>3. ASSUME Next1 = deleteIfEmpty("Fx"), Driver = Gone, FxIsOurs(reg),
             \A n \in OwnNames : Holds(reg, "Fx", n, None), reg["Fx"] # Gone
      PROVE  reg["windows"] # Gone
  <2>1. \A n \in Name : reg["Fx"][n] = None
    BY <1>3 DEF FxIsOurs, Holds, HasValue
  <2>2. reg["Fx"] \in Contents
    BY <1>3, Paths DEF DevInv, TxInv, TxTypeOK, Registries
  <2>3. reg["Fx"] = Empty
    BY <2>1, <2>2 DEF Empty, Contents
  <2>4. ~keyEmpty(reg, "Fx")
    BY <1>1, <1>3 DEF Wanted, deleteIfEmpty
  <2>5. HasSubkey(reg, "Fx")
    BY <2>3, <2>4 DEF keyEmpty
  <2> QED
    BY <2>5, Paths DEF HasSubkey
<1> QED
  BY <1>1, <1>2, <1>3 DEF Through, FxForWindows

LEMMA ChangeThrough ==
  ASSUME DevInv, LookedNext, change
  PROVE  Through(Next1, reg, reg')
<1>1. /\ looked # Idle /\ Accepts(reg, looked.op) /\ reg' = Applied(reg, looked.op)
      /\ reg \in Registries /\ todo # <<>> /\ Next1 \in Instructions
  BY TailType DEF change, Change, DevInv, TxInv, TxTypeOK, Underway
<1>2. CASE Next1.when # "call"
  <2>1. looked.op = Next1.op /\ Next1.op \in OwnOperations
    <3>1. Call("createFx").when = "call"
      BY DEF Call
    <3> QED
      BY <1>1, <1>2, <3>1 DEF LookedNext, Instructions
  <2>2. ASSUME NEW k \in OwnKeys, NEW n \in Name, NEW v \in Value \cup {None}
        PROVE  /\ Sets(Next1, k, n, v) => Holds(reg', k, n, v)
               /\ ~Disturbs(Next1, k, n, v) /\ Holds(reg, k, n, v) => Holds(reg', k, n, v)
    <3>1. Sets(Next1, k, n, v) => Holds(reg', k, n, v)
      BY <1>1, <1>2, <2>1, AppliedSets
    <3>2. ~Disturbs(Next1, k, n, v) /\ Holds(reg, k, n, v) => Holds(reg', k, n, v)
      BY <1>1, <1>2, <2>1, AppliedHolds DEF Disturbs
    <3> QED
      BY <3>1, <3>2
  <2>3. /\ reg'["windows"] = reg["windows"]
        /\ Next1.op.key # "Fx" => reg'["Fx"] = reg["Fx"]
        /\ ~(Next1.op.op = "deleteKey" /\ Next1.op.key = "Fx") /\ reg["Fx"] # Gone => reg'["Fx"] # Gone
        /\ Next1.op.op # "createKey" /\ reg["Fx"] = Gone => reg'["Fx"] = Gone
        /\ FxIsOurs(reg) => FxIsOurs(reg')
        /\ \A s \in allGuidValueNames :
             (reg["Fx"] # Gone => reg["Fx"][s] \notin Ours) /\ ~PutsOurs(Next1, s)
               => (reg'["Fx"] # Gone => reg'["Fx"][s] \notin Ours)
    BY <1>1, <1>2, <2>1, AppliedElsewhere DEF PutsOurs
  <2>4. Next1 = deleteIfEmpty("Fx") => reg'["Fx"] = Gone
    BY <1>1, <2>1, AppliedElsewhere DEF deleteIfEmpty
  <2> QED
    BY <1>2, <2>2, <2>3, <2>4 DEF Through, FxForWindows
<1>3. CASE Next1 = Call("createFx") /\ looked.op = createKey("Fx").op
  <2> DEFINE o == [op |-> "createKey", key |-> "Fx"]
  <2>1. looked.op = o /\ o \in OwnOperations /\ Next1.when = "call"
    BY <1>3, Paths DEF createKey, OwnOperations, Operations, Call
  <2>2. ASSUME NEW k \in OwnKeys, NEW n \in Name, NEW v \in Value \cup {None}
        PROVE  /\ ~Sets(Next1, k, n, v)
               /\ Holds(reg, k, n, v) => Holds(reg', k, n, v)
    BY <1>1, <2>1, AppliedHolds DEF Sets
  <2>3. /\ reg'["windows"] = reg["windows"]
        /\ reg["Fx"] # Gone => reg'["Fx"] # Gone
        /\ FxIsOurs(reg) => FxIsOurs(reg')
        /\ \A s \in allGuidValueNames :
             (reg["Fx"] # Gone => reg["Fx"][s] \notin Ours)
               => (reg'["Fx"] # Gone => reg'["Fx"][s] \notin Ours)
    BY <1>1, <2>1, AppliedElsewhere
  <2>4. Next1 # deleteIfEmpty("Fx")
    BY <2>1 DEF deleteIfEmpty
  <2> QED
    BY <2>1, <2>2, <2>3, <2>4 DEF Through
<1> QED
  BY <1>1, <1>2, <1>3 DEF LookedNext

(* Nothing, or Windows' key, has changed.                                   *)
Alike(r, t) ==
  /\ \A k \in Key \ {"windows"} : t[k] = r[k]
  /\ r["windows"] # Gone => t["windows"] # Gone

LEMMA AlikeKeeps ==
  ASSUME NEW r, NEW t, Alike(r, t)
  PROVE  /\ \A k \in OwnKeys, n \in Name, v \in Value \cup {None} : Holds(r, k, n, v) <=> Holds(t, k, n, v)
         /\ \A e : Tells(e, r) => Tells(e, t)
         /\ t["Fx"] = r["Fx"] /\ t["Child"] = r["Child"] /\ t["record"] = r["record"]
         /\ FxOK(r) => FxOK(t)
         /\ FxForWindows(r) => FxForWindows(t)
<1>1. \A k \in OwnKeys : t[k] = r[k]
  BY Paths DEF Alike
<1>2. \A k \in OwnKeys, n \in Name, v \in Value \cup {None} : Holds(r, k, n, v) <=> Holds(t, k, n, v)
  BY <1>1 DEF Holds, HasValue
<1>3. t["Fx"] = r["Fx"] /\ t["Child"] = r["Child"] /\ t["record"] = r["record"]
  BY <1>1, Paths
<1>4. \A e : Tells(e, r) => Tells(e, t)
  BY DEF Tells, Alike
<1> QED
  BY <1>2, <1>3, <1>4 DEF FxOK, FxIsKept, FxIsOurs, FxForWindows, Alike

----------------------------------------------------------------------------
(* What load makes of a registry at rest *)

LEMMA DriverFacts ==
  ASSUME device \in Devices
  PROVE  /\ \A s \in allGuidValueNames :
              /\ Target(s) \in Value \cup {None}
              /\ Target(s) \notin Ours \cup {"!KEY", "!VALUE", ""}
              /\ Driver = Gone => Target(s) = None
              /\ KeyCode[s] = "!KEY"
              /\ ValueCode[s] = IF Target(s) = None THEN "!VALUE" ELSE Target(s)
              /\ ValueCode[s] \in Value
         /\ Driver # Gone => Driver \in Contents
         /\ {"!KEY", "!VALUE", ""} \cup Ours \subseteq Value
         /\ None \notin Value
<1>1. Driver \in Contents \cup {Gone}
  BY DeviceTree DEF Driver
<1>2. {"!KEY", "!VALUE", ""} \cup Ours \subseteq Value /\ None \notin Value
  BY Names, Sentinels DEF Ours
<1>3. ASSUME NEW s \in allGuidValueNames
      PROVE  /\ Target(s) \in Value \cup {None}
             /\ Target(s) \notin Ours \cup {"!KEY", "!VALUE", ""}
  <2>1. s \in Name
    BY Names
  <2>2. CASE Driver = Gone
    BY <1>2, <2>2 DEF Target
  <2>3. CASE Driver # Gone
    BY <1>1, <2>1, <2>3, DriversOwn DEF Target, Contents, Driver
  <2> QED
    BY <2>2, <2>3
<1> QED
  BY <1>1, <1>2, <1>3 DEF KeyCode, ValueCode, Target

LEMMA CleanIsFree ==
  ASSUME device \in Devices, NEW r, Clean(r)
  PROVE  /\ foundAt(r) = {} /\ ~Recorded(r)
         /\ \A s \in allGuidValueNames : HasValue(r, "Fx", s) => r["Fx"][s] \notin Ours
         /\ \A s \in allGuidValueNames : IF Target(s) = None THEN ~HasValue(r, "Fx", s)
                                         ELSE HasValue(r, "Fx", s) /\ r["Fx"][s] = Target(s)
<1>1. \A s \in allGuidValueNames : IF Target(s) = None THEN ~HasValue(r, "Fx", s)
                                   ELSE HasValue(r, "Fx", s) /\ r["Fx"][s] = Target(s)
  BY DEF Clean, Holds, HasValue
<1>2. \A s \in allGuidValueNames : HasValue(r, "Fx", s) => r["Fx"][s] \notin Ours
  BY <1>1, DriverFacts
<1> QED
  BY <1>1, <1>2 DEF foundAt, Recorded

LEMMA LoadTells ==
  ASSUME device \in Devices, NEW r, AtRest(r)
  PROVE  \E e \in Codes : Tells(e, r) /\ Loaded(r).originals = e
<1>1. Loaded(r).originals = originalApoGuids(r)
  BY DEF Loaded
<1>2. CASE Clean(r)
  <2>1. /\ foundAt(r) = {} /\ ~Recorded(r)
        /\ \A s \in allGuidValueNames : IF Target(s) = None THEN ~HasValue(r, "Fx", s)
                                        ELSE HasValue(r, "Fx", s) /\ r["Fx"][s] = Target(s)
    BY <1>2, CleanIsFree
  <2>2. CASE r["Fx"] = Gone
    <3>1. Driver = Gone
      BY <2>2 DEF AtRest, FxOK, FxIsKept
    <3>2. originalApoGuids(r) = KeyCode
      BY <2>1, <2>2 DEF originalApoGuids, KeyCode
    <3> QED
      BY <1>1, <3>1, <3>2 DEF Codes, Tells
  <2>3. CASE r["Fx"] # Gone
    <3>1. originalApoGuids(r)
            = [s \in allGuidValueNames |-> IF HasValue(r, "Fx", s) THEN r["Fx"][s] ELSE "!VALUE"]
      BY <2>1, <2>3 DEF originalApoGuids
    <3>2. originalApoGuids(r) = ValueCode
      BY <2>1, <3>1 DEF ValueCode
    <3>3. Driver = Gone => r["windows"] # Gone
      BY <1>2, <2>3 DEF Clean, FxForWindows
    <3> QED
      BY <1>1, <3>2, <3>3 DEF Codes, Tells
  <2> QED
    BY <2>2, <2>3
<1>3. CASE Installed(r)
  <2>1. PICK e \in Codes : Tells(e, r) /\ \A s \in allGuidValueNames : Holds(r, "Child", s, e[s])
    BY <1>3 DEF Installed
  <2>2. \A s \in allGuidValueNames : e[s] # None /\ e = [t \in allGuidValueNames |-> e[t]]
    BY DriverFacts DEF Codes, KeyCode, ValueCode
  <2>3. \A s \in allGuidValueNames : HasValue(r, "Child", s) /\ r["Child"][s] = e[s]
    BY <2>1, <2>2 DEF Holds, HasValue
  <2>4. "lfx" \in allGuidValueNames
    BY DEF allGuidValueNames
  <2>5. Recorded(r)
    BY <1>3, <2>3, <2>4 DEF Recorded, Installed, HasValue
  <2>6. originalApoGuids(r) = [s \in allGuidValueNames |-> r["Child"][s]]
    BY <2>3, <2>5 DEF originalApoGuids
  <2>7. originalApoGuids(r) = e
    BY <2>2, <2>3, <2>4, <2>6
  <2> QED
    BY <1>1, <2>1, <2>7
<1> QED
  BY <1>2, <1>3 DEF AtRest

LEMMA LoadedSame ==
  ASSUME NEW r, NEW t, t["Fx"] = r["Fx"], t["Child"] = r["Child"], t["record"] = r["record"]
  PROVE  Loaded(t) = Loaded(r) /\ foundAt(t) = foundAt(r)
<1>2. foundAt(t) = foundAt(r)
  BY DEF foundAt, HasValue
<1>3. Recorded(t) = Recorded(r)
  BY <1>2 DEF Recorded
<1>4. originalApoGuids(t) = originalApoGuids(r)
  BY <1>2, <1>3 DEF originalApoGuids, HasValue
<1>5. LoadedMode(t) = LoadedMode(r)
  BY <1>2, <1>3 DEF LoadedMode, HasValue
<1>6. HasValue(t, "record", "TargetKind") = HasValue(r, "record", "TargetKind")
      /\ HasValue(t, "Child", "DisableAutomaticAdjustment") = HasValue(r, "Child", "DisableAutomaticAdjustment")
  BY DEF HasValue
<1> QED
  BY <1>2, <1>3, <1>4, <1>5, <1>6 DEF Loaded

LEMMA AlikeRest ==
  ASSUME device \in Devices, NEW r, NEW t, Alike(r, t)
  PROVE  /\ Clean(r) => Clean(t)
         /\ AtRest(r) => AtRest(t)
         /\ Loaded(t) = Loaded(r) /\ foundAt(t) = foundAt(r)
<1>1. /\ \A k \in OwnKeys, n \in Name, v \in Value \cup {None} : Holds(r, k, n, v) <=> Holds(t, k, n, v)
      /\ \A e \in Codes : Tells(e, r) => Tells(e, t)
      /\ t["Fx"] = r["Fx"] /\ t["Child"] = r["Child"] /\ t["record"] = r["record"]
      /\ FxOK(r) => FxOK(t)
      /\ FxForWindows(r) => FxForWindows(t)
  BY AlikeKeeps
<1>2. Loaded(t) = Loaded(r) /\ foundAt(t) = foundAt(r)
  BY <1>1, LoadedSame
<1>3. \A s \in allGuidValueNames : Target(s) \in Value \cup {None} /\ s \in Name
  BY DriverFacts, Names
<1>4. Clean(r) => Clean(t)
  BY <1>1, <1>3, Paths DEF Clean
<1>5. \A e \in Codes, s \in allGuidValueNames : e[s] \in Value
  BY DriverFacts DEF Codes
<1>6. Installed(r) => Installed(t)
  BY <1>1, <1>2, <1>3, <1>5, Paths DEF Installed
<1> QED
  BY <1>1, <1>2, <1>4, <1>6 DEF AtRest

----------------------------------------------------------------------------
(* Sequences of a few elements *)

LEMMA OwnedText ==
  LET o == ownedFxValueNames
  IN  /\ o \in Seq(Name) /\ Len(o) = 9
      /\ o[1] = "lfx" /\ o[2] = "gfx" /\ o[3] = "sfx" /\ o[4] = "mfx" /\ o[5] = "efx"
      /\ o[6] = "sfxModes" /\ o[7] = "mfxModes" /\ o[8] = "efxModes" /\ o[9] = "fxTitle"
<1>1. ASSUME NEW x, NEW y, x = Slots, y = <<"sfxModes", "mfxModes", "efxModes", "fxTitle">>
      PROVE  /\ x \in Seq(Name) /\ Len(x) = 5 /\ y \in Seq(Name) /\ Len(y) = 4
             /\ x[1] = "lfx" /\ x[2] = "gfx" /\ x[3] = "sfx" /\ x[4] = "mfx" /\ x[5] = "efx"
             /\ y[1] = "sfxModes" /\ y[2] = "mfxModes" /\ y[3] = "efxModes" /\ y[4] = "fxTitle"
  <2>1. /\ "lfx" \in Name /\ "gfx" \in Name /\ "sfx" \in Name /\ "mfx" \in Name /\ "efx" \in Name
        /\ "sfxModes" \in Name /\ "mfxModes" \in Name /\ "efxModes" \in Name /\ "fxTitle" \in Name
    BY Names DEF allGuidValueNames, Lists
  <2> QED
    BY <1>1, <2>1 DEF Slots
<1>2. PICK x, y : x = Slots /\ y = <<"sfxModes", "mfxModes", "efxModes", "fxTitle">>
  OBVIOUS
<1>3. /\ x \in Seq(Name) /\ Len(x) = 5 /\ y \in Seq(Name) /\ Len(y) = 4
      /\ x[1] = "lfx" /\ x[2] = "gfx" /\ x[3] = "sfx" /\ x[4] = "mfx" /\ x[5] = "efx"
      /\ y[1] = "sfxModes" /\ y[2] = "mfxModes" /\ y[3] = "efxModes" /\ y[4] = "fxTitle"
  BY <1>1, <1>2
<1> DEFINE o == ownedFxValueNames
<1>4. o = x \o y
  BY <1>2 DEF ownedFxValueNames
<1>5. /\ x \o y \in Seq(Name) /\ Len(x \o y) = Len(x) + Len(y)
      /\ \A i \in 1..(Len(x) + Len(y)) : (x \o y)[i] = IF i <= Len(x) THEN x[i] ELSE y[i - Len(x)]
  BY <1>3, ConcatProperties
<1>6. o \in Seq(Name) /\ Len(o) = 9 /\ \A i \in 1..9 : o[i] = IF i <= 5 THEN x[i] ELSE y[i - 5]
  BY <1>3, <1>4, <1>5
<1> HIDE DEF o
<1>7. /\ o[1] = x[1] /\ o[2] = x[2] /\ o[3] = x[3] /\ o[4] = x[4] /\ o[5] = x[5]
      /\ o[6] = y[6 - 5] /\ o[7] = y[7 - 5] /\ o[8] = y[8 - 5] /\ o[9] = y[9 - 5]
  BY <1>6
<1>8. /\ o \in Seq(Name) /\ Len(o) = 9
      /\ o[1] = "lfx" /\ o[2] = "gfx" /\ o[3] = "sfx" /\ o[4] = "mfx" /\ o[5] = "efx"
      /\ o[6] = "sfxModes" /\ o[7] = "mfxModes" /\ o[8] = "efxModes" /\ o[9] = "fxTitle"
  BY <1>3, <1>6, <1>7
<1> QED
  BY <1>8 DEF o

LEMMA PairJoin ==
  ASSUME NEW S, NEW a \in S, NEW b \in S PROVE <<a>> \o <<b>> = <<a, b>>
<1> DEFINE u == <<a>>  v == <<b>>  w == <<a, b>>  s == u \o v
<1>1. /\ u \in Seq(S) /\ v \in Seq(S) /\ w \in Seq(S) /\ Len(u) = 1 /\ Len(v) = 1 /\ Len(w) = 2
      /\ u[1] = a /\ v[1] = b /\ w[1] = a /\ w[2] = b
  OBVIOUS
<1> HIDE DEF u, v, w
<1>2. s \in Seq(S) /\ Len(s) = 2 /\ \A i \in 1..2 : s[i] = IF i <= 1 THEN u[i] ELSE v[i - 1]
  BY <1>1, ConcatProperties
<1> HIDE DEF s
<1>3. s[1] = w[1] /\ s[2] = v[2 - 1]
  BY <1>1, <1>2
<1>4. \A i \in 1..2 : s[i] = w[i]
  BY <1>1, <1>3
<1>5. s = w
  BY <1>1, <1>2, <1>4
<1> QED
  BY <1>5 DEF s, u, v, w

LEMMA SevenSplit ==
  ASSUME NEW S, NEW a \in S, NEW b \in S, NEW c \in S, NEW d \in S, NEW e \in S, NEW f \in S, NEW g \in S
  PROVE  <<a, b, c, d, e, f, g>> = <<a, b>> \o (<<c>> \o <<d, e, f, g>>)
<1> DEFINE u == <<a, b>>  v == <<c>>  w == <<d, e, f, g>>  all == <<a, b, c, d, e, f, g>>
           t == v \o w  s == u \o t
<1>1. u \in Seq(S) /\ v \in Seq(S) /\ w \in Seq(S) /\ all \in Seq(S) /\ Len(u) = 2 /\ Len(v) = 1
      /\ Len(w) = 4 /\ Len(all) = 7
  OBVIOUS
<1>2. /\ u[1] = a /\ u[2] = b /\ v[1] = c /\ w[1] = d /\ w[2] = e /\ w[3] = f /\ w[4] = g
      /\ all[1] = a /\ all[2] = b /\ all[3] = c /\ all[4] = d /\ all[5] = e /\ all[6] = f /\ all[7] = g
  OBVIOUS
<1> HIDE DEF u, v, w, all
<1>3. t \in Seq(S) /\ Len(t) = 5 /\ \A i \in 1..5 : t[i] = IF i <= 1 THEN v[i] ELSE w[i - 1]
  <2>1. /\ t \in Seq(S) /\ Len(t) = Len(v) + Len(w)
        /\ \A i \in 1..(Len(v) + Len(w)) : t[i] = IF i <= Len(v) THEN v[i] ELSE w[i - Len(v)]
    BY <1>1, ConcatProperties
  <2>2. Len(v) = 1 /\ Len(v) + Len(w) = 5
    BY <1>1
  <2> QED
    BY <2>1, <2>2, Zenon
<1> HIDE DEF t
<1>4. s \in Seq(S) /\ Len(s) = 7 /\ \A i \in 1..7 : s[i] = IF i <= 2 THEN u[i] ELSE t[i - 2]
  <2>1. /\ s \in Seq(S) /\ Len(s) = Len(u) + Len(t)
        /\ \A i \in 1..(Len(u) + Len(t)) : s[i] = IF i <= Len(u) THEN u[i] ELSE t[i - Len(u)]
    BY <1>1, <1>3, ConcatProperties
  <2>2. Len(u) = 2 /\ Len(u) + Len(t) = 7
    BY <1>1, <1>3
  <2> QED
    BY <2>1, <2>2, Zenon
<1> HIDE DEF s
<1>5. /\ s[1] = u[1] /\ s[2] = u[2] /\ s[3] = t[3 - 2] /\ s[4] = t[4 - 2] /\ s[5] = t[5 - 2]
      /\ s[6] = t[6 - 2] /\ s[7] = t[7 - 2]
  BY <1>4
<1>6. t[1] = v[1] /\ t[2] = w[2 - 1] /\ t[3] = w[3 - 1] /\ t[4] = w[4 - 1] /\ t[5] = w[5 - 1]
  BY <1>3
<1>7. s[1] = a /\ s[2] = b /\ s[3] = c /\ s[4] = d /\ s[5] = e /\ s[6] = f /\ s[7] = g
  BY <1>2, <1>5, <1>6
<1>8. \A i \in 1..7 : s[i] = all[i]
  <2>1. \A i \in 1..7 : i = 1 \/ i = 2 \/ i = 3 \/ i = 4 \/ i = 5 \/ i = 6 \/ i = 7
    OBVIOUS
  <2> QED
    BY <1>2, <1>7, <2>1
<1>9. s = all
  <2>1. s \in [1..Len(s) -> S] /\ all \in [1..Len(all) -> S]
    BY <1>1, <1>4, LenProperties
  <2>2. s \in [1..7 -> S] /\ all \in [1..7 -> S]
    BY <1>1, <1>4, <2>1
  <2> QED
    BY <1>8, <2>2
<1> QED
  BY <1>9 DEF s, t, u, v, w, all

----------------------------------------------------------------------------
(* What the instructions of uninstalling owe *)

LEMMA VacateText ==
  ASSUME NEW s \in Seq(Name)
  PROVE  /\ Vacate(s) \in Seq(Instructions)
         /\ NoCalls(Vacate(s)) /\ KeepsFx(Vacate(s)) /\ MakesNothing(Vacate(s))
         /\ \A i \in 1..Len(s) : Pending(Vacate(s), "Fx", s[i], None)
         /\ \A k, n, v : (k # "Fx" \/ \A i \in 1..Len(s) : s[i] # n) => Spared(Vacate(s), k, n, v)
         /\ \A t : \A i \in DOMAIN Vacate(s) : ~PutsOurs(Vacate(s)[i], t)
<1>1. /\ Len(s) \in Nat /\ DOMAIN Vacate(s) = 1..Len(s)
      /\ \A i \in 1..Len(s) : Vacate(s)[i] = deleteIfThere("Fx", s[i])
  BY DEF Vacate
<1>2. \A i \in 1..Len(s) : /\ Vacate(s)[i].when = "there" /\ Vacate(s)[i].op.op = "deleteValue"
                           /\ Vacate(s)[i].op.key = "Fx" /\ Vacate(s)[i].op.name = s[i]
  BY <1>1 DEF deleteIfThere
<1>3. NoCalls(Vacate(s)) /\ KeepsFx(Vacate(s)) /\ MakesNothing(Vacate(s))
  BY <1>1, <1>2 DEF NoCalls, KeepsFx, MakesNothing
<1>4. \A i \in 1..Len(s) : Pending(Vacate(s), "Fx", s[i], None)
  BY <1>1, <1>2 DEF Pending, Sets, Disturbs
<1>5. \A k, n, v : (k # "Fx" \/ \A i \in 1..Len(s) : s[i] # n) => Spared(Vacate(s), k, n, v)
  BY <1>1, <1>2 DEF Spared, Disturbs
<1>6. \A t : \A i \in DOMAIN Vacate(s) : ~PutsOurs(Vacate(s)[i], t)
  BY <1>1, <1>2 DEF PutsOurs
<1> QED
  BY <1>3, <1>4, <1>5, <1>6, VacateType

LEMMA RestoreText ==
  ASSUME device \in Devices, info.originals = ValueCode, NEW s \in allGuidValueNames
  PROVE  /\ Restore(s) \in Seq(Instructions)
         /\ NoCalls(Restore(s)) /\ KeepsFx(Restore(s)) /\ MakesNothing(Restore(s))
         /\ Pending(Restore(s), "Fx", s, Target(s))
         /\ \A t, v : t # s => Spared(Restore(s), "Fx", t, v)
<1>1. /\ Target(s) \in Value \cup {None} /\ Target(s) \notin {"!KEY", "!VALUE", ""}
      /\ info.originals[s] = IF Target(s) = None THEN "!VALUE" ELSE Target(s)
  BY DriverFacts
<1> DEFINE i == IF Target(s) = None THEN deleteIfThere("Fx", s) ELSE write("Fx", s, Target(s))
<1>2. Restore(s) = <<i>>
  BY <1>1 DEF Restore
<1>3. i \in Instructions
  BY <1>1, MadeOf, OwnThings, Names
<1>4. /\ i.when # "call" /\ i.op.op \in {"deleteValue", "write"} /\ i.op.key = "Fx" /\ i.op.name = s
      /\ Sets(i, "Fx", s, Target(s))
  BY <1>1 DEF deleteIfThere, write, Sets
<1> HIDE DEF i
<1>5. Restore(s) \in Seq(Instructions) /\ DOMAIN Restore(s) = {1} /\ Restore(s)[1] = i
  BY <1>2, <1>3
<1>6. NoCalls(Restore(s)) /\ KeepsFx(Restore(s)) /\ MakesNothing(Restore(s))
  BY <1>4, <1>5 DEF NoCalls, KeepsFx, MakesNothing
<1>7. Pending(Restore(s), "Fx", s, Target(s))
  BY <1>4, <1>5 DEF Pending
<1>8. \A t, v : t # s => Spared(Restore(s), "Fx", t, v)
  BY <1>4, <1>5 DEF Spared, Disturbs
<1> QED
  BY <1>5, <1>6, <1>7, <1>8

LEMMA UninstallTailText ==
  /\ UninstallTail \in Seq(Instructions)
  /\ NoCalls(UninstallTail) /\ KeepsFx(UninstallTail) /\ MakesNothing(UninstallTail)
  /\ \A n, v : Spared(UninstallTail, "Fx", n, v)
<1>1. deleteIfExists("Child") \in Instructions /\ deleteIfEmpty("ChildApos") \in Instructions
  BY MadeOf, OwnThings
<1>2. /\ UninstallTail \in Seq(Instructions) /\ DOMAIN UninstallTail = {1, 2}
      /\ UninstallTail[1] = deleteIfExists("Child") /\ UninstallTail[2] = deleteIfEmpty("ChildApos")
  BY <1>1 DEF UninstallTail
<1>3. \A i \in DOMAIN UninstallTail :
        /\ UninstallTail[i].when # "call" /\ UninstallTail[i].op.op = "deleteKey"
        /\ UninstallTail[i].op.key # "Fx"
  BY <1>2 DEF deleteIfExists, deleteIfEmpty
<1> QED
  BY <1>2, <1>3 DEF NoCalls, KeepsFx, MakesNothing, Spared, Disturbs

LEMMA RestoringText ==
  ASSUME device \in Devices, info.originals = ValueCode,
         NEW q, q = Restore("lfx") \o Restore("gfx") \o Restore("sfx") \o Restore("mfx") \o Restore("efx")
  PROVE  /\ q \in Seq(Instructions) /\ NoCalls(q) /\ KeepsFx(q) /\ MakesNothing(q)
         /\ \A s \in allGuidValueNames : Pending(q, "Fx", s, Target(s))
<1> DEFINE l == Restore("lfx")  g == Restore("gfx")  f == Restore("sfx")
           m == Restore("mfx")  e == Restore("efx")
<1>1. \A s \in allGuidValueNames :
        /\ Restore(s) \in Seq(Instructions)
        /\ NoCalls(Restore(s)) /\ KeepsFx(Restore(s)) /\ MakesNothing(Restore(s))
        /\ Pending(Restore(s), "Fx", s, Target(s))
        /\ \A t, v : t # s => Spared(Restore(s), "Fx", t, v)
  BY RestoreText
<1>2. allGuidValueNames = {"lfx", "gfx", "sfx", "mfx", "efx"}
  BY DEF allGuidValueNames
<1>3. /\ l \in Seq(Instructions) /\ g \in Seq(Instructions) /\ f \in Seq(Instructions)
      /\ m \in Seq(Instructions) /\ e \in Seq(Instructions)
      /\ l \o g \in Seq(Instructions) /\ l \o g \o f \in Seq(Instructions)
      /\ l \o g \o f \o m \in Seq(Instructions) /\ l \o g \o f \o m \o e \in Seq(Instructions)
  BY <1>1, <1>2, Joined
<1>4. NoCalls(q) /\ KeepsFx(q) /\ MakesNothing(q)
  <2>1. NoCalls(l \o g) /\ KeepsFx(l \o g) /\ MakesNothing(l \o g)
    BY <1>1, <1>2, <1>3, JoinAll
  <2>2. NoCalls(l \o g \o f) /\ KeepsFx(l \o g \o f) /\ MakesNothing(l \o g \o f)
    BY <1>1, <1>2, <1>3, <2>1, JoinAll
  <2>3. NoCalls(l \o g \o f \o m) /\ KeepsFx(l \o g \o f \o m) /\ MakesNothing(l \o g \o f \o m)
    BY <1>1, <1>2, <1>3, <2>2, JoinAll
  <2> QED
    BY <1>1, <1>2, <1>3, <2>3, JoinAll
<1>5. ASSUME NEW s \in allGuidValueNames PROVE Pending(q, "Fx", s, Target(s))
  <2> DEFINE P(p) == Pending(p, "Fx", s, Target(s))
             S(p) == Spared(p, "Fx", s, Target(s))
  <2>1. /\ IF s = "lfx" THEN P(l) ELSE S(l)
        /\ IF s = "gfx" THEN P(g) ELSE S(g)
        /\ IF s = "sfx" THEN P(f) ELSE S(f)
        /\ IF s = "mfx" THEN P(m) ELSE S(m)
        /\ IF s = "efx" THEN P(e) ELSE S(e)
    BY <1>1, <1>2
  <2>2. \A p \in Seq(Instructions), r \in Seq(Instructions) : P(r) \/ (P(p) /\ S(r)) => P(p \o r)
    BY JoinEarly, JoinLate
  <2> HIDE DEF P, S, l, g, f, m, e
  <2>3. s \in {"lfx", "gfx"} => P(l \o g)
    BY <1>3, <2>1, <2>2
  <2>4. s \in {"lfx", "gfx", "sfx"} => P(l \o g \o f)
    BY <1>3, <2>1, <2>2, <2>3
  <2>5. s \in {"lfx", "gfx", "sfx", "mfx"} => P(l \o g \o f \o m)
    BY <1>3, <2>1, <2>2, <2>4
  <2>6. P(l \o g \o f \o m \o e)
    BY <1>2, <1>3, <2>1, <2>2, <2>5
  <2> QED
    BY <2>6 DEF P, l, g, f, m, e
<1> QED
  BY <1>3, <1>4, <1>5

(* Uninstalling owes every slot what the driver had in it, and with no key  *)
(* of the driver's an emptied FxProperties.                                 *)
LEMMA UninstallText ==
  ASSUME device \in Devices, reg \in Registries, FxOK(reg),
         NEW e \in Codes, Tells(e, reg), info.originals = e
  PROVE  \/ /\ Driver = Gone
            /\ \E p \in Seq(Instructions) :
                 /\ uninstallWithin = p \o (<<deleteIfEmpty("Fx")>> \o UninstallTail)
                 /\ NoCalls(p)
                 /\ \A n \in OwnNames : Owed(p, reg, "Fx", n, None)
         \/ /\ FxForWindows(reg)
            /\ \E p \in Seq(Instructions) :
                 /\ uninstallWithin = p
                 /\ NoCalls(p) /\ KeepsFx(p) /\ MakesNothing(p)
                 /\ \A s \in allGuidValueNames : Owed(p, reg, "Fx", s, Target(s))
<1>0. "lfx" \in allGuidValueNames /\ KeyCode["lfx"] = "!KEY" /\ ValueCode["lfx"] # "!KEY"
  BY DriverFacts DEF allGuidValueNames
<1>1. uninstallWithin =
        (IF info.originals["lfx"] = "!KEY"
         THEN IF reg["Fx"] = Gone THEN <<>> ELSE Vacate(ownedFxValueNames) \o <<deleteIfEmpty("Fx")>>
         ELSE Restore("lfx") \o Restore("gfx") \o Restore("sfx") \o Restore("mfx") \o Restore("efx"))
        \o UninstallTail
  BY DEF uninstallWithin, UninstallTail
<1>2. CASE e = KeyCode /\ Driver = Gone /\ reg["Fx"] = Gone
  <2>1. uninstallWithin = UninstallTail
    BY <1>0, <1>1, <1>2, UninstallTailText
  <2>2. \A s \in allGuidValueNames : Holds(reg, "Fx", s, Target(s))
    BY <1>2, DriverFacts DEF Holds, HasValue
  <2>3. FxForWindows(reg)
    BY <1>2 DEF FxForWindows
  <2> QED
    BY <2>1, <2>2, <2>3, UninstallTailText DEF Owed
<1>3. CASE e = KeyCode /\ Driver = Gone /\ reg["Fx"] # Gone
  <2> DEFINE o == ownedFxValueNames  p == Vacate(o)
  <2>1. /\ o \in Seq(Name) /\ Len(o) = 9
        /\ o[1] = "lfx" /\ o[2] = "gfx" /\ o[3] = "sfx" /\ o[4] = "mfx" /\ o[5] = "efx"
        /\ o[6] = "sfxModes" /\ o[7] = "mfxModes" /\ o[8] = "efxModes" /\ o[9] = "fxTitle"
    BY OwnedText
  <2> HIDE DEF o
  <2>2. \A n \in OwnNames : \E i \in 1..Len(o) : o[i] = n
    BY <2>1 DEF OwnNames, allGuidValueNames, Lists
  <2>3. \A n \in OwnNames : Pending(p, "Fx", n, None)
    BY <2>1, <2>2, VacateText
  <2>4. p \in Seq(Instructions) /\ NoCalls(p)
    BY <2>1, VacateText
  <2>5. <<deleteIfEmpty("Fx")>> \in Seq(Instructions)
    <3>1. deleteIfEmpty("Fx") \in Instructions
      BY MadeOf, OwnThings
    <3> QED
      BY <3>1
  <2>6. uninstallWithin = p \o (<<deleteIfEmpty("Fx")>> \o UninstallTail)
    <3>1. uninstallWithin = (p \o <<deleteIfEmpty("Fx")>>) \o UninstallTail
      BY <1>0, <1>1, <1>3 DEF o
    <3> HIDE DEF p
    <3> QED
      BY <2>4, <2>5, <3>1, UninstallTailText, ConcatAssociative
  <2> QED
    BY <1>3, <2>3, <2>4, <2>6 DEF Owed
<1>4. CASE e = ValueCode /\ (Driver = Gone => reg["windows"] # Gone)
  <2> DEFINE q == Restore("lfx") \o Restore("gfx") \o Restore("sfx") \o Restore("mfx") \o Restore("efx")
  <2>1. uninstallWithin = q \o UninstallTail
    BY <1>0, <1>1, <1>4
  <2>2. /\ q \in Seq(Instructions) /\ NoCalls(q) /\ KeepsFx(q) /\ MakesNothing(q)
        /\ \A s \in allGuidValueNames : Pending(q, "Fx", s, Target(s))
    BY <1>4, RestoringText
  <2> HIDE DEF q
  <2>3. q \o UninstallTail \in Seq(Instructions)
    BY <2>2, UninstallTailText, Joined
  <2>4. NoCalls(q \o UninstallTail) /\ KeepsFx(q \o UninstallTail) /\ MakesNothing(q \o UninstallTail)
    BY <2>2, UninstallTailText, JoinAll
  <2>5. \A s \in allGuidValueNames : Pending(q \o UninstallTail, "Fx", s, Target(s))
    BY <2>2, UninstallTailText, JoinEarly
  <2>6. FxForWindows(reg)
    BY <1>4 DEF FxForWindows
  <2> QED
    BY <2>1, <2>3, <2>4, <2>5, <2>6 DEF Owed
<1> QED
  BY <1>2, <1>3, <1>4 DEF Tells

----------------------------------------------------------------------------
(* What the instructions of installing owe *)

LEMMA PopulateText ==
  ASSUME NEW wanted \in BOOLEAN, NEW slot \in allGuidValueNames, NEW v \in Ours,
         NEW q, q = Populate(wanted, slot, v)
  PROVE  /\ q \in Seq(Instructions) /\ NoCalls(q) /\ KeepsFx(q)
         /\ \A k, n, w : k # "Fx" => Spared(q, k, n, w)
         /\ \A s \in allGuidValueNames : \A w : ~wanted \/ s # slot => Spared(q, "Fx", s, w)
         /\ \A s \in allGuidValueNames : ~wanted \/ s # slot => \A i \in DOMAIN q : ~PutsOurs(q[i], s)
         /\ wanted => Pending(q, "Fx", slot, v)
<1>1. q \in Seq(Instructions)
  BY PopulateType, DriverFacts, Names DEF Ours
<1> DEFINE w0 == write("Fx", slot, v)
           Mode(n) == <<writeIfAbsent("Fx", n, "allModes")>>
<1>2. CASE ~wanted
  <2>1. q = <<>>
    BY <1>2 DEF Populate
  <2>2. DOMAIN q = {}
    BY <2>1
  <2> QED
    BY <1>1, <1>2, <2>2 DEF NoCalls, KeepsFx, Spared
<1>3. CASE wanted
  <2>1. \/ q = <<w0>> \o <<>>
        \/ \E n \in Lists : q = <<w0>> \o Mode(n)
    BY <1>3 DEF Populate, Lists
  <2>2. \/ q = <<w0>>
        \/ \E n \in Lists : q = <<w0, writeIfAbsent("Fx", n, "allModes")>>
    <3>1. w0 \in Instructions /\ \A n \in Lists : writeIfAbsent("Fx", n, "allModes") \in Instructions
      BY MadeOf, OwnThings, Names DEF Ours
    <3> HIDE DEF w0
    <3>2. \A n \in Lists : <<w0>> \o <<writeIfAbsent("Fx", n, "allModes")>>
                            = <<w0, writeIfAbsent("Fx", n, "allModes")>>
      BY <3>1, PairJoin
    <3>3. <<w0>> \o <<>> = <<w0>>
      OBVIOUS
    <3> QED
      BY <2>1, <3>2, <3>3, Zenon
  <2>3. \E n \in Lists : /\ DOMAIN q \subseteq {1, 2} /\ 1 \in DOMAIN q
                         /\ q[1] = w0
                         /\ 2 \in DOMAIN q => q[2] = writeIfAbsent("Fx", n, "allModes")
    BY <2>2 DEF Lists
  <2>4. PICK n \in Lists : /\ DOMAIN q \subseteq {1, 2} /\ 1 \in DOMAIN q
                           /\ q[1] = w0
                           /\ 2 \in DOMAIN q => q[2] = writeIfAbsent("Fx", n, "allModes")
    BY <2>3
  <2>5. /\ w0.when = "always" /\ w0.op.op = "write" /\ w0.op.key = "Fx" /\ w0.op.name = slot
        /\ w0.op.value = v
    BY DEF write
  <2>6. 2 \in DOMAIN q => /\ q[2].when = "absent" /\ q[2].op.op = "write" /\ q[2].op.key = "Fx"
                          /\ q[2].op.name = n /\ q[2].op.value = "allModes"
    BY <2>4 DEF writeIfAbsent, write
  <2>7. n \notin allGuidValueNames /\ "allModes" \notin Ours
    BY DEF Lists, allGuidValueNames, Ours
  <2> HIDE DEF w0, Mode
  <2>8. NoCalls(q) /\ KeepsFx(q)
    BY <2>4, <2>5, <2>6 DEF NoCalls, KeepsFx
  <2>9. \A k, m, w : k # "Fx" => Spared(q, k, m, w)
    BY <2>4, <2>5, <2>6 DEF Spared, Disturbs
  <2>10. \A s \in allGuidValueNames : \A w : s # slot => Spared(q, "Fx", s, w)
    BY <2>4, <2>5, <2>6, <2>7 DEF Spared, Disturbs
  <2>11. \A s \in allGuidValueNames : s # slot => \A i \in DOMAIN q : ~PutsOurs(q[i], s)
    BY <2>4, <2>5, <2>6, <2>7 DEF PutsOurs
  <2>12. Pending(q, "Fx", slot, v)
    BY <2>4, <2>5, <2>6, <2>7 DEF Pending, Sets, Disturbs
  <2> QED
    BY <1>1, <1>3, <2>8, <2>9, <2>10, <2>11, <2>12
<1> QED
  BY <1>2, <1>3

LEMMA ChildWritesText ==
  ASSUME device \in Devices, NEW e \in Codes,
         NEW W, W = [i \in 1..Len(Slots) |-> write("Child", Slots[i], e[Slots[i]])]
  PROVE  /\ W \in Seq(Instructions) /\ NoCalls(W) /\ KeepsFx(W)
         /\ \A s \in allGuidValueNames : Pending(W, "Child", s, e[s])
         /\ \A s : \A i \in DOMAIN W : ~PutsOurs(W[i], s)
<1>1. /\ Len(Slots) = 5 /\ \A i \in 1..5 : Slots[i] \in allGuidValueNames
      /\ \A s \in allGuidValueNames : \E i \in 1..5 : Slots[i] = s
  BY DEF Slots, allGuidValueNames
<1>2. DOMAIN W = 1..5 /\ \A i \in 1..5 : W[i] = write("Child", Slots[i], e[Slots[i]])
  BY <1>1
<1>3. \A i \in 1..5 : /\ W[i].when = "always" /\ W[i].op.op = "write" /\ W[i].op.key = "Child"
                      /\ W[i].op.name = Slots[i] /\ W[i].op.value = e[Slots[i]]
  BY <1>2 DEF write
<1>4. \A s \in allGuidValueNames : e[s] \in Value /\ s \in Name
  BY DriverFacts, Names DEF Codes
<1>5. \A i \in 1..5 : W[i] \in Instructions
  BY <1>1, <1>2, <1>4, MadeOf, OwnThings
<1>6. W \in Seq(Instructions)
  <2>1. W \in [1..5 -> Instructions]
    BY <1>1, <1>2, <1>5
  <2> QED
    BY <2>1, SeqDef
<1>7. NoCalls(W) /\ KeepsFx(W)
  BY <1>2, <1>3 DEF NoCalls, KeepsFx
<1>8. ASSUME NEW s \in allGuidValueNames PROVE Pending(W, "Child", s, e[s])
  <2>1. PICK i \in 1..5 : Slots[i] = s
    BY <1>1
  <2>2. Sets(W[i], "Child", s, e[s])
    BY <1>3, <2>1 DEF Sets
  <2>3. ASSUME NEW j \in 1..5 PROVE ~Disturbs(W[j], "Child", s, e[s])
    <3>1. W[j].op.op = "write" /\ W[j].op.name = Slots[j] /\ W[j].op.value = e[Slots[j]]
      BY <1>3
    <3>2. Slots[j] = s => W[j].op.value = e[s]
      BY <3>1, Zenon
    <3> QED
      BY <3>1, <3>2 DEF Disturbs
  <2> QED
    BY <1>2, <2>2, <2>3 DEF Pending
<1>9. \A s : \A i \in DOMAIN W : ~PutsOurs(W[i], s)
  BY <1>2, <1>3 DEF PutsOurs
<1> QED
  BY <1>6, <1>7, <1>8, <1>9

LEMMA FxPropertiesText ==
  ASSUME device \in Devices, reg \in Registries, FxOK(reg), Clean(reg)
  PROVE  /\ fxProperties \in Seq(Instructions)
         /\ CallsOnly(fxProperties, {"createFx", "mayThrow"}) /\ KeepsFx(fxProperties)
         /\ \E e \in Codes : /\ Tells(e, reg)
                             /\ \A s \in allGuidValueNames : Pending(fxProperties, "Child", s, e[s])
         /\ \A s \in allGuidValueNames : \A i \in DOMAIN fxProperties : ~PutsOurs(fxProperties[i], s)
<1> DEFINE Writes(e) == [i \in 1..Len(Slots) |-> write("Child", Slots[i], e[Slots[i]])]
<1>1. \A e \in Codes :
        /\ Writes(e) \in Seq(Instructions) /\ NoCalls(Writes(e)) /\ KeepsFx(Writes(e))
        /\ \A s \in allGuidValueNames : Pending(Writes(e), "Child", s, e[s])
        /\ \A s : \A i \in DOMAIN Writes(e) : ~PutsOurs(Writes(e)[i], s)
  BY ChildWritesText
<1>2. \A q \in Seq(Instructions) : \A F : NoCalls(q) => CallsOnly(q, F)
  BY DEF NoCalls, CallsOnly
<1>3. \A i \in 1..Len(Slots) : Slots[i] \in allGuidValueNames
  BY DEF Slots, allGuidValueNames
<1>4. CASE reg["Fx"] = Gone
  <2> DEFINE h == <<Call("createFx"), write("Fx", "fxTitle", "title")>>  W == Writes(KeyCode)
  <2>1. fxProperties = h \o W
    <3>1. [i \in 1..Len(Slots) |-> write("Child", Slots[i], "!KEY")] = W
      BY <1>3 DEF KeyCode
    <3> HIDE DEF W, h
    <3> QED
      BY <1>4, <3>1 DEF fxProperties, h
  <2>2. Call("createFx") \in Instructions /\ write("Fx", "fxTitle", "title") \in Instructions
    BY MadeOf, OwnThings, Names, CallsAre DEF Calls
  <2>3. h \in Seq(Instructions) /\ DOMAIN h = {1, 2} /\ h[1] = Call("createFx")
        /\ h[2] = write("Fx", "fxTitle", "title")
    BY <2>2
  <2>4. h[1].when = "call" /\ h[1].f = "createFx" /\ h[2].when = "always" /\ h[2].op.op = "write"
        /\ h[2].op.name = "fxTitle"
    BY <2>3 DEF Call, write
  <2> HIDE DEF h, W
  <2>5. CallsOnly(h, {"createFx", "mayThrow"}) /\ KeepsFx(h)
    BY <2>3, <2>4 DEF CallsOnly, KeepsFx
  <2>6. \A s \in allGuidValueNames : \A i \in DOMAIN h : ~PutsOurs(h[i], s)
    BY <2>3, <2>4 DEF PutsOurs, allGuidValueNames
  <2>7. /\ W \in Seq(Instructions) /\ CallsOnly(W, {"createFx", "mayThrow"}) /\ KeepsFx(W)
        /\ \A s \in allGuidValueNames : Pending(W, "Child", s, KeyCode[s])
        /\ \A s : \A i \in DOMAIN W : ~PutsOurs(W[i], s)
    BY <1>1, <1>2 DEF Codes, W
  <2>8. Driver = Gone
    BY <1>4 DEF FxOK, FxIsKept
  <2>9. KeyCode \in Codes /\ Tells(KeyCode, reg)
    BY <2>8 DEF Codes, Tells
  <2>10. h \o W \in Seq(Instructions) /\ CallsOnly(h \o W, {"createFx", "mayThrow"}) /\ KeepsFx(h \o W)
    BY <2>3, <2>5, <2>7, JoinAll, Joined
  <2>11. \A s \in allGuidValueNames : Pending(h \o W, "Child", s, KeyCode[s])
    BY <2>3, <2>7, JoinLate
  <2>12. \A s \in allGuidValueNames : \A i \in DOMAIN (h \o W) : ~PutsOurs((h \o W)[i], s)
    BY <2>3, <2>6, <2>7, JoinAll
  <2> QED
    BY <2>1, <2>9, <2>10, <2>11, <2>12
<1>5. CASE reg["Fx"] # Gone
  <2> DEFINE W == Writes(ValueCode)
             t == IF \E s \in allGuidValueNames : HasValue(reg, "Fx", s) THEN <<Call("mayThrow")>> ELSE <<>>
  <2>1. fxProperties = W \o t
    <3>1. \A s \in allGuidValueNames : (IF HasValue(reg, "Fx", s) THEN reg["Fx"][s] ELSE "!VALUE") = ValueCode[s]
      BY CleanIsFree, DriverFacts
    <3>2. [i \in 1..Len(Slots) |-> write("Child", Slots[i], IF HasValue(reg, "Fx", Slots[i])
                                                            THEN reg["Fx"][Slots[i]] ELSE "!VALUE")] = W
      BY <1>3, <3>1
    <3> HIDE DEF W, t
    <3> QED
      BY <1>5, <3>2 DEF fxProperties, t
  <2>2. Call("mayThrow") \in Instructions
    BY CallsAre DEF Calls
  <2>3. /\ t \in Seq(Instructions) /\ DOMAIN t \subseteq {1}
        /\ 1 \in DOMAIN t => t[1] = Call("mayThrow")
    BY <2>2
  <2>4. 1 \in DOMAIN t => t[1].when = "call" /\ t[1].f = "mayThrow"
    BY <2>3 DEF Call
  <2> HIDE DEF t, W
  <2>5. CallsOnly(t, {"createFx", "mayThrow"}) /\ KeepsFx(t)
    BY <2>3, <2>4 DEF CallsOnly, KeepsFx
  <2>6. /\ \A s \in allGuidValueNames : \A i \in DOMAIN t : ~PutsOurs(t[i], s)
        /\ \A k, n, v : Spared(t, k, n, v)
    BY <2>3, <2>4 DEF PutsOurs, Spared, Disturbs
  <2>7. /\ W \in Seq(Instructions) /\ CallsOnly(W, {"createFx", "mayThrow"}) /\ KeepsFx(W)
        /\ \A s \in allGuidValueNames : Pending(W, "Child", s, ValueCode[s])
        /\ \A s : \A i \in DOMAIN W : ~PutsOurs(W[i], s)
    BY <1>1, <1>2 DEF Codes, W
  <2>8. Driver = Gone => reg["windows"] # Gone
    BY <1>5 DEF Clean, FxForWindows
  <2>9. ValueCode \in Codes /\ Tells(ValueCode, reg)
    BY <2>8 DEF Codes, Tells
  <2>10. W \o t \in Seq(Instructions) /\ CallsOnly(W \o t, {"createFx", "mayThrow"}) /\ KeepsFx(W \o t)
    BY <2>3, <2>5, <2>7, JoinAll, Joined
  <2>11. \A s \in allGuidValueNames : Pending(W \o t, "Child", s, ValueCode[s])
    BY <2>3, <2>6, <2>7, JoinEarly
  <2>12. \A s \in allGuidValueNames : \A i \in DOMAIN (W \o t) : ~PutsOurs((W \o t)[i], s)
    BY <2>3, <2>6, <2>7, JoinAll
  <2> QED
    BY <2>1, <2>9, <2>10, <2>11, <2>12
<1> QED
  BY <1>4, <1>5

(* The instructions about the endpoint's entry touch nothing else.          *)
LEMMA EntriesApart ==
  ASSUME NEW q \in Seq(Instructions), OnlyEntries(q)
  PROVE  /\ KeepsFx(q)
         /\ \A k, n, v : k \in {"Fx", "Child"} => Spared(q, k, n, v)
         /\ \A s : \A i \in DOMAIN q : ~PutsOurs(q[i], s)
<1>1. KeepsFx(q)
  BY DEF OnlyEntries, KeepsFx
<1>2. \A k, n, v : k \in {"Fx", "Child"} => Spared(q, k, n, v)
  BY DEF OnlyEntries, Spared, Disturbs
<1>3. \A s : \A i \in DOMAIN q : ~PutsOurs(q[i], s)
  BY DEF OnlyEntries, PutsOurs
<1> QED
  BY <1>1, <1>2, <1>3

LEMMA EntryText ==
  /\ removeAsioEntry \in Seq(Instructions) /\ OnlyEntries(removeAsioEntry) /\ NoCalls(removeAsioEntry)
  /\ applyAsioEntry \in Seq(Instructions) /\ OnlyEntries(applyAsioEntry)
  /\ CallsOnly(applyAsioEntry, {"mayThrow"})
  /\ Selected => Pending(applyAsioEntry, "record", "TargetKind",
                         IF selected.exclusive THEN "exclusive" ELSE None)
<1> DEFINE r == removeAsioEntry
           t == <<Call("mayThrow"), createKey("record"), write("record", "TargetKind", "exclusive"),
                  createKey("entry")>>
<1>1. /\ r \in Seq(Instructions) /\ DOMAIN r = {1, 2}
      /\ r[1] = deleteIfExists("entry") /\ r[2] = deleteIfExists("record")
  BY AsioType DEF removeAsioEntry
<1>2. /\ r[1].when = "exists" /\ r[1].op.op = "deleteKey" /\ r[1].op.key = "entry"
      /\ r[2].when = "exists" /\ r[2].op.op = "deleteKey" /\ r[2].op.key = "record"
  BY <1>1 DEF deleteIfExists
<1>3. t \in Seq(Instructions)
  <2>1. /\ Call("mayThrow") \in Instructions /\ createKey("record") \in Instructions
        /\ write("record", "TargetKind", "exclusive") \in Instructions
        /\ createKey("entry") \in Instructions
    BY MadeOf, OwnThings, Names, CallsAre DEF Calls
  <2> QED
    BY <2>1
<1>4. /\ DOMAIN t = {1, 2, 3, 4} /\ t[1].when = "call" /\ t[1].f = "mayThrow"
      /\ t[2].when = "always" /\ t[2].op.op = "createKey" /\ t[2].op.key = "record"
      /\ t[3].when = "always" /\ t[3].op.op = "write" /\ t[3].op.key = "record"
      /\ t[3].op.name = "TargetKind" /\ t[3].op.value = "exclusive"
      /\ t[4].when = "always" /\ t[4].op.op = "createKey" /\ t[4].op.key = "entry"
  BY DEF Call, createKey, write
<1>5. applyAsioEntry = r \o (IF ~selected.exclusive \/ ~Selected THEN <<>> ELSE t)
  BY DEF applyAsioEntry, Selected
<1> HIDE DEF r, t
<1>6. OnlyEntries(r) /\ NoCalls(r) /\ CallsOnly(r, {"mayThrow"})
  BY <1>1, <1>2 DEF OnlyEntries, NoCalls, CallsOnly
<1>7. OnlyEntries(t) /\ CallsOnly(t, {"mayThrow"})
  BY <1>4 DEF OnlyEntries, CallsOnly
<1>8. Pending(r, "record", "TargetKind", None)
  BY <1>1, <1>2 DEF Pending, Sets, Disturbs
<1>9. Pending(t, "record", "TargetKind", "exclusive")
  BY <1>4 DEF Pending, Sets, Disturbs
<1>10. CASE ~selected.exclusive \/ ~Selected
  <2>1. applyAsioEntry = r
    <3>1. r \o <<>> = r
      BY <1>1, ConcatEmptySeq
    <3> QED
      BY <1>5, <1>10, <3>1, Zenon
  <2> QED
    BY <1>1, <1>6, <1>8, <1>10, <2>1 DEF r
<1>11. CASE selected.exclusive /\ Selected
  <2>1. applyAsioEntry = r \o t
    BY <1>5, <1>11
  <2>2. r \o t \in Seq(Instructions) /\ OnlyEntries(r \o t) /\ CallsOnly(r \o t, {"mayThrow"})
    BY <1>1, <1>3, <1>6, <1>7, JoinAll, Joined
  <2>3. Pending(r \o t, "record", "TargetKind", "exclusive")
    BY <1>1, <1>3, <1>9, JoinLate
  <2> QED
    BY <1>1, <1>6, <1>11, <2>1, <2>2, <2>3 DEF r
<1> QED
  BY <1>10, <1>11

(* What follows the record of the driver's slots owes all the rest of what  *)
(* was selected.                                                            *)
LEMMA SlotsApart ==
  ASSUME InfoOK
  PROVE  /\ preSlot \in allGuidValueNames /\ postSlot \in allGuidValueNames /\ preSlot # postSlot
         /\ IF selected.mode = "LFX_GFX" THEN preSlot = "lfx" /\ postSlot = "gfx"
            ELSE preSlot = "sfx" /\ postSlot = IF selected.mode = "SFX_MFX" THEN "mfx" ELSE "efx"
<1> QED
  BY DEF InfoOK, InstallModes, preSlot, postSlot, allGuidValueNames

LEMMA PopulatedText ==
  ASSUME InfoOK, selected.pre \in BOOLEAN, selected.post \in BOOLEAN, selected.post => ~device.input
  PROVE  /\ populated \in Seq(Instructions) /\ NoCalls(populated) /\ KeepsFx(populated)
         /\ \A k, n, w : k # "Fx" => Spared(populated, k, n, w)
         /\ \A s \in allGuidValueNames :
              IF Chosen(s) # None THEN Pending(populated, "Fx", s, Chosen(s))
              ELSE \A i \in DOMAIN populated : ~PutsOurs(populated[i], s)
<1> DEFINE p == Populate(selected.pre, preSlot, "preMix")
           q == Populate(selected.post /\ ~device.input, postSlot, "postMix")
<1>1. /\ (selected.post /\ ~device.input) = selected.post /\ (selected.post /\ ~device.input) \in BOOLEAN
      /\ "preMix" \in Ours /\ "postMix" \in Ours
  BY DEF Ours
<1>2. /\ preSlot \in allGuidValueNames /\ postSlot \in allGuidValueNames /\ preSlot # postSlot
  BY SlotsApart
<1>3. /\ p \in Seq(Instructions) /\ NoCalls(p) /\ KeepsFx(p)
      /\ \A k, n, w : k # "Fx" => Spared(p, k, n, w)
      /\ \A s \in allGuidValueNames : \A w : ~selected.pre \/ s # preSlot => Spared(p, "Fx", s, w)
      /\ \A s \in allGuidValueNames : ~selected.pre \/ s # preSlot => \A i \in DOMAIN p : ~PutsOurs(p[i], s)
      /\ selected.pre => Pending(p, "Fx", preSlot, "preMix")
  BY <1>1, <1>2, PopulateText
<1>4. /\ q \in Seq(Instructions) /\ NoCalls(q) /\ KeepsFx(q)
      /\ \A k, n, w : k # "Fx" => Spared(q, k, n, w)
      /\ \A s \in allGuidValueNames : \A w : ~selected.post \/ s # postSlot => Spared(q, "Fx", s, w)
      /\ \A s \in allGuidValueNames : ~selected.post \/ s # postSlot => \A i \in DOMAIN q : ~PutsOurs(q[i], s)
      /\ selected.post => Pending(q, "Fx", postSlot, "postMix")
  BY <1>1, <1>2, PopulateText
<1>5. populated = p \o q
  BY DEF populated
<1> HIDE DEF p, q
<1>6. p \o q \in Seq(Instructions) /\ NoCalls(p \o q) /\ KeepsFx(p \o q)
  BY <1>3, <1>4, JoinAll, Joined
<1>7. \A k, n, w : k # "Fx" => Spared(p \o q, k, n, w)
  BY <1>3, <1>4, JoinSpared
<1>8. "preMix" # None /\ "postMix" # None
  BY DriverFacts, Names, Sentinels DEF Ours
<1>9. ASSUME NEW s \in allGuidValueNames
      PROVE  IF Chosen(s) # None THEN Pending(p \o q, "Fx", s, Chosen(s))
             ELSE \A i \in DOMAIN (p \o q) : ~PutsOurs((p \o q)[i], s)
  <2>1. CASE selected.pre /\ s = preSlot
    <3>1. Chosen(s) = "preMix"
      BY <2>1 DEF Chosen
    <3>2. Pending(p \o q, "Fx", s, "preMix")
      BY <1>2, <1>3, <1>4, <2>1, JoinEarly
    <3> QED
      BY <1>8, <3>1, <3>2
  <2>2. CASE selected.post /\ s = postSlot
    <3>1. Chosen(s) = "postMix"
      BY <1>2, <2>2 DEF Chosen
    <3>2. Pending(p \o q, "Fx", s, "postMix")
      BY <1>3, <1>4, <2>2, JoinLate
    <3> QED
      BY <1>8, <3>1, <3>2
  <2>3. CASE ~(selected.pre /\ s = preSlot) /\ ~(selected.post /\ s = postSlot)
    <3>1. Chosen(s) = None
      BY <2>3 DEF Chosen
    <3>2. (\A i \in DOMAIN p : ~PutsOurs(p[i], s)) /\ (\A i \in DOMAIN q : ~PutsOurs(q[i], s))
      BY <1>3, <1>4, <2>3
    <3>3. \A i \in DOMAIN (p \o q) : ~PutsOurs((p \o q)[i], s)
      BY <1>3, <1>4, <3>2, JoinAll
    <3> QED
      BY <3>1, <3>3
  <2> QED
    BY <2>1, <2>2, <2>3
<1> QED
  BY <1>5, <1>6, <1>7, <1>9

(* The slots, with those of the other modes vacated.                        *)
Middle == IF selected.mode = "LFX_GFX" THEN populated \o Vacate(<<"sfx", "mfx", "efx">>)
          ELSE Vacate(<<"lfx", "gfx">>) \o populated

LEMMA MiddleText ==
  ASSUME InfoOK, selected.pre \in BOOLEAN, selected.post \in BOOLEAN, selected.post => ~device.input
  PROVE  /\ Middle \in Seq(Instructions) /\ NoCalls(Middle) /\ KeepsFx(Middle)
         /\ \A k, n, w : k # "Fx" => Spared(Middle, k, n, w)
         /\ \A s \in allGuidValueNames :
              IF Chosen(s) # None THEN Pending(Middle, "Fx", s, Chosen(s))
              ELSE \A i \in DOMAIN Middle : ~PutsOurs(Middle[i], s)
<1> DEFINE P == populated  a == <<"sfx", "mfx", "efx">>  b == <<"lfx", "gfx">>
<1>1. /\ P \in Seq(Instructions) /\ NoCalls(P) /\ KeepsFx(P)
      /\ \A k, n, w : k # "Fx" => Spared(P, k, n, w)
      /\ \A s \in allGuidValueNames :
           IF Chosen(s) # None THEN Pending(P, "Fx", s, Chosen(s))
           ELSE \A i \in DOMAIN P : ~PutsOurs(P[i], s)
  BY PopulatedText
<1>2. a \in Seq(Name) /\ b \in Seq(Name) /\ Len(a) = 3 /\ \A i \in 1..3 : a[i] \in {"sfx", "mfx", "efx"}
  <2>1. "sfx" \in Name /\ "mfx" \in Name /\ "efx" \in Name /\ "lfx" \in Name /\ "gfx" \in Name
    BY Names DEF allGuidValueNames
  <2> QED
    BY <2>1
<1> HIDE DEF P, a, b
<1>3. \A c \in {a, b} :
        /\ Vacate(c) \in Seq(Instructions) /\ NoCalls(Vacate(c)) /\ KeepsFx(Vacate(c))
        /\ \A k, n, v : (k # "Fx" \/ \A i \in 1..Len(c) : c[i] # n) => Spared(Vacate(c), k, n, v)
        /\ \A t : \A i \in DOMAIN Vacate(c) : ~PutsOurs(Vacate(c)[i], t)
  BY <1>2, VacateText
<1>4. CASE selected.mode = "LFX_GFX"
  <2> DEFINE v == Vacate(a)
  <2>1. Middle = P \o v
    BY <1>4 DEF Middle, P, a
  <2>2. /\ v \in Seq(Instructions) /\ NoCalls(v) /\ KeepsFx(v)
        /\ \A k, n, w : k # "Fx" => Spared(v, k, n, w)
        /\ \A n, w : n \in {"lfx", "gfx"} => Spared(v, "Fx", n, w)
        /\ \A t : \A i \in DOMAIN v : ~PutsOurs(v[i], t)
    BY <1>2, <1>3
  <2> HIDE DEF v
  <2>3. \A s \in allGuidValueNames : Chosen(s) # None => s \in {"lfx", "gfx"}
    BY <1>4, SlotsApart DEF Chosen
  <2>4. P \o v \in Seq(Instructions) /\ NoCalls(P \o v) /\ KeepsFx(P \o v)
    BY <1>1, <2>2, JoinAll, Joined
  <2>5. \A k, n, w : k # "Fx" => Spared(P \o v, k, n, w)
    BY <1>1, <2>2, JoinSpared
  <2>6. \A s \in allGuidValueNames : Chosen(s) # None => Pending(P \o v, "Fx", s, Chosen(s))
    BY <1>1, <2>2, <2>3, JoinEarly
  <2>7. \A s \in allGuidValueNames : Chosen(s) = None => \A i \in DOMAIN (P \o v) : ~PutsOurs((P \o v)[i], s)
    BY <1>1, <2>2, JoinAll
  <2> QED
    BY <2>1, <2>4, <2>5, <2>6, <2>7
<1>5. CASE selected.mode # "LFX_GFX"
  <2> DEFINE v == Vacate(b)
  <2>1. Middle = v \o P
    BY <1>5 DEF Middle, P, b
  <2>2. /\ v \in Seq(Instructions) /\ NoCalls(v) /\ KeepsFx(v)
        /\ \A k, n, w : k # "Fx" => Spared(v, k, n, w)
        /\ \A t : \A i \in DOMAIN v : ~PutsOurs(v[i], t)
    BY <1>2, <1>3
  <2> HIDE DEF v
  <2>4. v \o P \in Seq(Instructions) /\ NoCalls(v \o P) /\ KeepsFx(v \o P)
    BY <1>1, <2>2, JoinAll, Joined
  <2>5. \A k, n, w : k # "Fx" => Spared(v \o P, k, n, w)
    BY <1>1, <2>2, JoinSpared
  <2>6. \A s \in allGuidValueNames : Chosen(s) # None => Pending(v \o P, "Fx", s, Chosen(s))
    BY <1>1, <2>2, JoinLate
  <2>7. \A s \in allGuidValueNames : Chosen(s) = None => \A i \in DOMAIN (v \o P) : ~PutsOurs((v \o P)[i], s)
    BY <1>1, <2>2, JoinAll
  <2> QED
    BY <2>1, <2>4, <2>5, <2>6, <2>7
<1> QED
  BY <1>4, <1>5

LEMMA ChildRecordText ==
  ASSUME InfoOK
  PROVE  /\ ChildRecord \in Seq(Instructions) /\ NoCalls(ChildRecord) /\ KeepsFx(ChildRecord)
         /\ \A s \in allGuidValueNames : \A v : Spared(ChildRecord, "Child", s, v)
         /\ \A s : \A i \in DOMAIN ChildRecord : ~PutsOurs(ChildRecord[i], s)
         /\ Pending(ChildRecord, "Child", "DisableAutomaticAdjustment",
                    IF selected.adjust THEN None ELSE "true")
         /\ ~selected.usePre => Pending(ChildRecord, "Child", "PreMixChild", "")
         /\ ~selected.usePost => Pending(ChildRecord, "Child", "PostMixChild", "")
<1> DEFINE pre == IF selected.usePre THEN getOriginalAPOPreMix ELSE ""
           post == IF selected.usePost THEN getOriginalAPOPostMix ELSE ""
           w1 == write("Child", "PreMixChild", pre)
           w2 == write("Child", "PostMixChild", post)
           w3 == IF selected.adjust THEN deleteIfThere("Child", "DisableAutomaticAdjustment")
                 ELSE write("Child", "DisableAutomaticAdjustment", "true")
           w4 == write("Child", "Version", "2")
           q == <<w1, w2, w3, w4>>
<1>1. ChildRecord = q
  BY DEF ChildRecord
<1>2. pre \in Value /\ post \in Value
  BY OriginalType, Names
<1>3. w1 \in Instructions /\ w2 \in Instructions /\ w3 \in Instructions /\ w4 \in Instructions
  <2> HIDE DEF pre, post
  <2> QED
    BY <1>2, MadeOf, OwnThings, Names
<1>4. /\ w1.when = "always" /\ w1.op.op = "write" /\ w1.op.key = "Child" /\ w1.op.name = "PreMixChild"
      /\ w1.op.value = pre
      /\ w2.when = "always" /\ w2.op.op = "write" /\ w2.op.key = "Child" /\ w2.op.name = "PostMixChild"
      /\ w2.op.value = post
      /\ w3.op.op \in {"write", "deleteValue"} /\ w3.op.key = "Child"
      /\ w3.op.name = "DisableAutomaticAdjustment" /\ w3.when # "call"
      /\ Sets(w3, "Child", "DisableAutomaticAdjustment", IF selected.adjust THEN None ELSE "true")
      /\ w4.when = "always" /\ w4.op.op = "write" /\ w4.op.key = "Child" /\ w4.op.name = "Version"
  BY DEF write, deleteIfThere, Sets
<1>5. ~selected.usePre => pre = ""
  OBVIOUS
<1>6. ~selected.usePost => post = ""
  OBVIOUS
<1> HIDE DEF w1, w2, w3, w4, pre, post
<1>7. /\ q \in Seq(Instructions) /\ DOMAIN q = {1, 2, 3, 4}
      /\ q[1] = w1 /\ q[2] = w2 /\ q[3] = w3 /\ q[4] = w4
  BY <1>3
<1> HIDE DEF q
<1>8. NoCalls(q) /\ KeepsFx(q)
  BY <1>4, <1>7 DEF NoCalls, KeepsFx
<1>9. \A s \in allGuidValueNames : \A v : Spared(q, "Child", s, v)
  BY <1>4, <1>7 DEF Spared, Disturbs, allGuidValueNames
<1>10. \A s : \A i \in DOMAIN q : ~PutsOurs(q[i], s)
  BY <1>4, <1>7 DEF PutsOurs
<1>11. Pending(q, "Child", "DisableAutomaticAdjustment", IF selected.adjust THEN None ELSE "true")
  <2> DEFINE v == IF selected.adjust THEN None ELSE "true"
  <2>1. Sets(q[3], "Child", "DisableAutomaticAdjustment", v)
    BY <1>4, <1>7
  <2>2. ~Disturbs(q[4], "Child", "DisableAutomaticAdjustment", v)
    BY <1>4, <1>7 DEF Disturbs
  <2> HIDE DEF v
  <2>3. Pending(q, "Child", "DisableAutomaticAdjustment", v)
    BY <1>7, <2>1, <2>2 DEF Pending
  <2> QED
    BY <2>3 DEF v
<1>12. ASSUME ~selected.usePre PROVE Pending(q, "Child", "PreMixChild", "")
  <2>1. Sets(q[1], "Child", "PreMixChild", "")
    BY <1>4, <1>5, <1>7, <1>12 DEF Sets
  <2>2. /\ ~Disturbs(q[2], "Child", "PreMixChild", "")
        /\ ~Disturbs(q[3], "Child", "PreMixChild", "")
        /\ ~Disturbs(q[4], "Child", "PreMixChild", "")
    BY <1>4, <1>7 DEF Disturbs
  <2>3. \A j \in DOMAIN q : j > 1 => j \in {2, 3, 4}
    BY <1>7
  <2>4. \A j \in DOMAIN q : j > 1 => ~Disturbs(q[j], "Child", "PreMixChild", "")
    BY <2>2, <2>3
  <2>5. 1 \in DOMAIN q
    BY <1>7
  <2> QED
    BY <2>1, <2>4, <2>5, Zenon DEF Pending
<1>13. ASSUME ~selected.usePost PROVE Pending(q, "Child", "PostMixChild", "")
  <2>1. Sets(q[2], "Child", "PostMixChild", "")
    BY <1>4, <1>6, <1>7, <1>13 DEF Sets
  <2>2. /\ ~Disturbs(q[3], "Child", "PostMixChild", "")
        /\ ~Disturbs(q[4], "Child", "PostMixChild", "")
    BY <1>4, <1>7 DEF Disturbs
  <2>3. \A j \in DOMAIN q : j > 2 => j \in {3, 4}
    BY <1>7
  <2>4. \A j \in DOMAIN q : j > 2 => ~Disturbs(q[j], "Child", "PostMixChild", "")
    BY <2>2, <2>3
  <2>5. 2 \in DOMAIN q
    BY <1>7
  <2> QED
    BY <2>1, <2>4, <2>5, Zenon DEF Pending
<1> QED
  BY <1>1, <1>7, <1>8, <1>9, <1>10, <1>11, <1>12, <1>13

(* All that is written after fxProperties.                                  *)
LEMMA FillingText ==
  ASSUME InfoOK, selected.pre \in BOOLEAN, selected.post \in BOOLEAN, selected.post => ~device.input,
         NEW F, F = Filling \o <<Call("applyAsioEntry")>>
  PROVE  /\ F \in Seq(Instructions) /\ KeepsFx(F) /\ CallsOnly(F, {"applyAsioEntry"})
         /\ EntryLast(F) /\ EntryComes(F)
         /\ \A s \in allGuidValueNames : \A v : Spared(F, "Child", s, v)
         /\ \A s \in allGuidValueNames :
              IF Chosen(s) # None THEN Pending(F, "Fx", s, Chosen(s))
              ELSE \A i \in DOMAIN F : ~PutsOurs(F[i], s)
         /\ Pending(F, "Child", "DisableAutomaticAdjustment", IF selected.adjust THEN None ELSE "true")
         /\ ~selected.usePre => Pending(F, "Child", "PreMixChild", "")
         /\ ~selected.usePost => Pending(F, "Child", "PostMixChild", "")
<1> DEFINE adjusted == IF selected.adjust THEN None ELSE "true"
           C == ChildRecord
           M == Middle
           d == deleteIfThere("Fx", "disableEnhancements")
           c == Call("applyAsioEntry")
           D == <<d>>
           A == <<c>>
           Y == C \o M
           Z == Y \o D
<1>1. F = Z \o A
  BY DEF Filling, Middle
<1>2. /\ C \in Seq(Instructions) /\ NoCalls(C) /\ KeepsFx(C)
      /\ \A s \in allGuidValueNames : \A v : Spared(C, "Child", s, v)
      /\ \A s : \A i \in DOMAIN C : ~PutsOurs(C[i], s)
      /\ Pending(C, "Child", "DisableAutomaticAdjustment", adjusted)
      /\ ~selected.usePre => Pending(C, "Child", "PreMixChild", "")
      /\ ~selected.usePost => Pending(C, "Child", "PostMixChild", "")
  BY ChildRecordText
<1>3. /\ M \in Seq(Instructions) /\ NoCalls(M) /\ KeepsFx(M)
      /\ \A k, n, w : k # "Fx" => Spared(M, k, n, w)
      /\ \A s \in allGuidValueNames :
           IF Chosen(s) # None THEN Pending(M, "Fx", s, Chosen(s))
           ELSE \A i \in DOMAIN M : ~PutsOurs(M[i], s)
  BY MiddleText
<1>4. d \in Instructions /\ c \in Instructions
  BY MadeOf, OwnThings, CallsAre, Names DEF Calls
<1>5. /\ d.when = "there" /\ d.op.op = "deleteValue" /\ d.op.key = "Fx" /\ d.op.name = "disableEnhancements"
      /\ c.when = "call" /\ c.f = "applyAsioEntry" /\ c = Call("applyAsioEntry")
  BY DEF deleteIfThere, Call
<1> HIDE DEF d, c
<1>6. /\ D \in Seq(Instructions) /\ DOMAIN D = {1} /\ D[1] = d
      /\ A \in Seq(Instructions) /\ DOMAIN A = {1} /\ A[1] = c /\ Len(A) = 1 /\ A # <<>>
  BY <1>4
<1> HIDE DEF C, M, D, A, adjusted
<1>7. /\ NoCalls(D) /\ KeepsFx(D)
      /\ \A n, v : Spared(D, "Child", n, v)
      /\ \A s \in allGuidValueNames : \A v : Spared(D, "Fx", s, v)
      /\ \A s : \A i \in DOMAIN D : ~PutsOurs(D[i], s)
  BY <1>5, <1>6 DEF NoCalls, KeepsFx, Spared, Disturbs, PutsOurs, allGuidValueNames
<1>8. /\ KeepsFx(A) /\ CallsOnly(A, {"applyAsioEntry"}) /\ EntryLast(A) /\ EntryComes(A)
      /\ \A k, n, v : Spared(A, k, n, v)
      /\ \A s : \A i \in DOMAIN A : ~PutsOurs(A[i], s)
  BY <1>5, <1>6 DEF KeepsFx, CallsOnly, Spared, Disturbs, PutsOurs, EntryLast, EntryComes
<1>9. Y \in Seq(Instructions) /\ NoCalls(Y) /\ KeepsFx(Y)
  BY <1>2, <1>3, JoinAll, Joined
<1>10. \A n : Spared(M, "Child", n, None) /\ \A v : Spared(M, "Child", n, v)
  BY <1>3
<1>11. \A s \in allGuidValueNames : \A v : Spared(Y, "Child", s, v)
  BY <1>2, <1>3, <1>10, JoinSpared
<1>12. /\ Pending(Y, "Child", "DisableAutomaticAdjustment", adjusted)
       /\ ~selected.usePre => Pending(Y, "Child", "PreMixChild", "")
       /\ ~selected.usePost => Pending(Y, "Child", "PostMixChild", "")
  BY <1>2, <1>3, <1>10, JoinEarly
<1>13. \A s \in allGuidValueNames : Chosen(s) # None => Pending(Y, "Fx", s, Chosen(s))
  BY <1>2, <1>3, JoinLate
<1>14. \A s \in allGuidValueNames : Chosen(s) = None => \A i \in DOMAIN Y : ~PutsOurs(Y[i], s)
  BY <1>2, <1>3, JoinAll
<1> HIDE DEF Y
<1>15. Z \in Seq(Instructions) /\ NoCalls(Z) /\ KeepsFx(Z)
  BY <1>6, <1>7, <1>9, JoinAll, Joined
<1>16. \A s \in allGuidValueNames : \A v : Spared(Z, "Child", s, v)
  BY <1>6, <1>7, <1>9, <1>11, JoinSpared
<1>17. /\ Pending(Z, "Child", "DisableAutomaticAdjustment", adjusted)
       /\ ~selected.usePre => Pending(Z, "Child", "PreMixChild", "")
       /\ ~selected.usePost => Pending(Z, "Child", "PostMixChild", "")
  BY <1>6, <1>7, <1>9, <1>12, JoinEarly
<1>18. \A s \in allGuidValueNames : Chosen(s) # None => Pending(Z, "Fx", s, Chosen(s))
  BY <1>6, <1>7, <1>9, <1>13, JoinEarly
<1>19. \A s \in allGuidValueNames : Chosen(s) = None => \A i \in DOMAIN Z : ~PutsOurs(Z[i], s)
  BY <1>6, <1>7, <1>9, <1>14, JoinAll
<1> HIDE DEF Z
<1>20. CallsOnly(Z, {}) /\ CallsOnly(Z, {"applyAsioEntry"})
  BY <1>15 DEF CallsOnly, NoCalls
<1>21. /\ F \in Seq(Instructions) /\ KeepsFx(F) /\ CallsOnly(F, {"applyAsioEntry"})
       /\ EntryLast(F) /\ EntryComes(F)
  <2>1. EntryLast(F)
    BY <1>1, <1>6, <1>8, <1>15, <1>20, JoinAll
  <2>2. KeepsFx(F) /\ CallsOnly(F, {"applyAsioEntry"}) /\ EntryComes(F)
    <3>1. KeepsFx(Z \o A) /\ EntryComes(Z \o A)
      BY <1>6, <1>8, <1>15, JoinAll
    <3>2. CallsOnly(Z \o A, {"applyAsioEntry"})
      BY <1>6, <1>8, <1>15, <1>20, JoinAll
    <3> QED
      BY <1>1, <3>1, <3>2
  <2> QED
    BY <1>1, <1>6, <1>8, <1>15, <1>20, <2>1, <2>2, Joined
<1>22. \A s \in allGuidValueNames : \A v : Spared(F, "Child", s, v)
  BY <1>1, <1>6, <1>8, <1>15, <1>16, JoinSpared
<1>23. /\ Pending(F, "Child", "DisableAutomaticAdjustment", adjusted)
       /\ ~selected.usePre => Pending(F, "Child", "PreMixChild", "")
       /\ ~selected.usePost => Pending(F, "Child", "PostMixChild", "")
  BY <1>1, <1>6, <1>8, <1>15, <1>17, JoinEarly
<1>24. \A s \in allGuidValueNames : Chosen(s) # None => Pending(F, "Fx", s, Chosen(s))
  BY <1>1, <1>6, <1>8, <1>15, <1>18, JoinEarly
<1>25. \A s \in allGuidValueNames : Chosen(s) = None => \A i \in DOMAIN F : ~PutsOurs(F[i], s)
  BY <1>1, <1>6, <1>8, <1>15, <1>19, JoinAll
<1> QED
  BY <1>21, <1>22, <1>23, <1>24, <1>25 DEF adjusted

(* x is s followed by t.                                                    *)
Joins(x, s, t) == s \in Seq(Instructions) /\ t \in Seq(Instructions) /\ x = s \o t

LEMMA Assoc ==
  ASSUME NEW s \in Seq(Instructions), NEW t \in Seq(Instructions), NEW u \in Seq(Instructions)
  PROVE  (s \o t) \o u = s \o (t \o u)
<1> QED
  BY ConcatAssociative

LEMMA JoinsAssoc ==
  ASSUME NEW s, NEW t, NEW u, NEW y, NEW z, Joins(y, s, t), Joins(z, t, u)
  PROVE  \A x : Joins(x, y, u) <=> Joins(x, s, z)
<1>1. s \in Seq(Instructions) /\ t \in Seq(Instructions) /\ u \in Seq(Instructions)
  BY DEF Joins
<1>2. (s \o t) \o u = s \o (t \o u)
  BY <1>1, Assoc
<1>3. y \in Seq(Instructions) /\ z \in Seq(Instructions)
  BY Joined DEF Joins
<1> QED
  BY <1>1, <1>2, <1>3, Zenon DEF Joins

LEMMA Regroup ==
  ASSUME NEW b, NEW p, NEW c, NEW m, NEW d, NEW a, NEW x, NEW y, NEW z, NEW w,
         Joins(x, p, c), Joins(y, b, x), Joins(z, y, m), Joins(w, z, d),
         NEW k, NEW l, NEW n, Joins(k, c, m), Joins(l, k, d), Joins(n, p, l)
  PROVE  Joins(w, b, n)
<1>1. PICK u : Joins(u, x, m)
  BY DEF Joins
<1>2. Joins(z, b, u)
  BY <1>1, JoinsAssoc
<1>3. Joins(u, p, k)
  BY <1>1, JoinsAssoc
<1>4. PICK v : Joins(v, u, d)
  BY <1>1, Joined DEF Joins
<1>5. Joins(w, b, v)
  BY <1>2, <1>4, JoinsAssoc
<1>6. Joins(v, p, l)
  BY <1>3, <1>4, JoinsAssoc
<1> QED
  BY <1>5, <1>6 DEF Joins

(* The call of installWithin, followed by that of applyAsioEntry.           *)
LEMMA InstallText ==
  ASSUME InfoOK, selected.pre \in BOOLEAN, selected.post \in BOOLEAN, selected.post => ~device.input,
         Selected
  PROVE  installWithin \o <<Call("applyAsioEntry")>>
           = <<createKey("ChildApos"), createKey("Child")>> \o ToFill
<1> DEFINE a == createKey("ChildApos")
           b == createKey("Child")
           c == Call("fxProperties")
           d == write("Child", "PreMixChild", IF selected.usePre THEN getOriginalAPOPreMix ELSE "")
           e == write("Child", "PostMixChild", IF selected.usePost THEN getOriginalAPOPostMix ELSE "")
           f == IF selected.adjust THEN deleteIfThere("Child", "DisableAutomaticAdjustment")
                ELSE write("Child", "DisableAutomaticAdjustment", "true")
           g == write("Child", "Version", "2")
           D == <<deleteIfThere("Fx", "disableEnhancements")>>
           A == <<Call("applyAsioEntry")>>
           M == Middle
           C == <<d, e, f, g>>
           B == <<a, b>>
           P == <<c>>
           X == <<a, b, c, d, e, f, g>>
<1>1. installWithin = (X \o M) \o D
  BY DEF installWithin, Middle, populated, Selected
<1>2. ToFill = (P \o ((C \o M) \o D)) \o A
  BY DEF ToFill, Filling, ChildRecord, Middle
<1>3. X = B \o (P \o C)
  <2> HIDE DEF a, b, c, d, e, f, g
  <2> QED
    BY SevenSplit
<1>4. /\ a \in Instructions /\ b \in Instructions /\ c \in Instructions
      /\ D \in Seq(Instructions) /\ A \in Seq(Instructions)
  <2>1. deleteIfThere("Fx", "disableEnhancements") \in Instructions
        /\ Call("applyAsioEntry") \in Instructions
    BY MadeOf, OwnThings, CallsAre, Names DEF Calls
  <2> QED
    BY <2>1, MadeOf, OwnThings, CallsAre DEF Calls
<1>5. M \in Seq(Instructions) /\ C \in Seq(Instructions)
  BY MiddleText, ChildRecordText DEF ChildRecord
<1> HIDE DEF a, b, c, M, C, D, A
<1>6. B \in Seq(Instructions) /\ P \in Seq(Instructions)
  BY <1>4
<1> HIDE DEF B, P, X
<1>7. /\ P \o C \in Seq(Instructions) /\ X \in Seq(Instructions) /\ X \o M \in Seq(Instructions)
      /\ C \o M \in Seq(Instructions) /\ (C \o M) \o D \in Seq(Instructions)
  BY <1>3, <1>4, <1>5, <1>6, Joined
<1> DEFINE x == P \o C  z == X \o M  k == C \o M  l == k \o D  n == P \o l
<1>8. n \in Seq(Instructions)
  BY <1>6, <1>7, Joined
<1>9. /\ Joins(x, P, C) /\ Joins(X, B, x) /\ Joins(z, X, M) /\ Joins(installWithin, z, D)
      /\ Joins(k, C, M) /\ Joins(l, k, D) /\ Joins(n, P, l) /\ Joins(ToFill, n, A)
  BY <1>1, <1>2, <1>3, <1>4, <1>5, <1>6, <1>7, <1>8, Zenon DEF Joins
<1> HIDE DEF x, z, k, l, n
<1>10. Joins(installWithin, B, n)
  BY <1>9, Regroup
<1>11. Joins(installWithin \o A, installWithin, A)
  BY <1>4, <1>10, Joined DEF Joins
<1>12. Joins(installWithin \o A, B, ToFill)
  BY <1>9, <1>10, <1>11, JoinsAssoc
<1> QED
  BY <1>12, Zenon DEF Joins, A, B, a, b

(* The first instruction of two texts.                                      *)
LEMMA JoinTail ==
  ASSUME NEW p \in Seq(Instructions), NEW q \in Seq(Instructions)
  PROVE  /\ p = <<>> => p \o q = q
         /\ p # <<>> => /\ Head(p \o q) = Head(p) /\ Tail(p \o q) = Tail(p) \o q
                        /\ p \o q # <<>> /\ Tail(p) \in Seq(Instructions)
  OBVIOUS

----------------------------------------------------------------------------
(* A step through the first instruction keeps the work going *)

Passing(i) == i.when # "call" \/ i.f \in {"createFx", "widen", "mayThrow"}

LEMMA AfterText ==
  ASSUME asked \in {"uninstall", "reinstall"}
  PROVE  /\ After \in Seq(Instructions) /\ After # <<>>
         /\ asked = "uninstall" => After = <<Call("removeAsioEntry")>>
         /\ asked = "reinstall" => Head(After) = Call("load") /\ Tail(After) = InstallCalls
         /\ ~Passing(Head(After))
<1> DEFINE c1 == Call("removeAsioEntry")  c2 == Call("uninstallWithin")  c3 == Call("load")
           c4 == Call("installWithin")  c5 == Call("applyAsioEntry")
<1>1. /\ c1 \in Instructions /\ c2 \in Instructions /\ c3 \in Instructions
      /\ c4 \in Instructions /\ c5 \in Instructions /\ ~Passing(c1) /\ ~Passing(c3)
  BY CallsAre DEF Calls, Passing, Call
<1>2. /\ Operation["uninstall"] = <<c2, c1>> /\ Operation["reinstall"] = <<c2, c3, c4, c5>>
      /\ InstallCalls = <<c4, c5>>
  BY DEF Operation, InstallCalls
<1> HIDE DEF c1, c2, c3, c4, c5
<1>3. /\ Tail(<<c2, c1>>) = <<c1>> /\ Tail(<<c2, c3, c4, c5>>) = <<c3, c4, c5>>
      /\ Tail(<<c3, c4, c5>>) = <<c4, c5>> /\ Head(<<c3, c4, c5>>) = c3 /\ Head(<<c1>>) = c1
      /\ <<c1>> \in Seq(Instructions) /\ <<c3, c4, c5>> \in Seq(Instructions)
      /\ <<c1>> # <<>> /\ <<c3, c4, c5>> # <<>>
  BY <1>1
<1>4. CASE asked = "uninstall"
  <2>1. After = <<c1>>
    BY <1>2, <1>3, <1>4 DEF After
  <2> QED
    BY <1>1, <1>3, <1>4, <2>1 DEF c1
<1>5. CASE asked = "reinstall"
  <2>1. After = <<c3, c4, c5>>
    BY <1>2, <1>3, <1>5 DEF After
  <2> QED
    BY <1>1, <1>2, <1>3, <1>5, <2>1 DEF c3
<1> QED
  BY <1>4, <1>5

LEMMA PassOwed ==
  ASSUME NEW q \in Seq(Instructions), q # <<>>, NEW r, NEW t, Through(Head(q), r, t),
         NEW k \in OwnKeys, NEW n \in Name, NEW v \in Value \cup {None}, Owed(q, r, k, n, v)
  PROVE  Owed(Tail(q), t, k, n, v)
<1>1. /\ Sets(Head(q), k, n, v) => Holds(t, k, n, v)
      /\ ~Disturbs(Head(q), k, n, v) /\ Holds(r, k, n, v) => Holds(t, k, n, v)
  BY DEF Through
<1> QED
  BY <1>1, TailOwed

(* Nothing more is owed when nothing is left to do.                         *)
LEMMA DoneOwed ==
  ASSUME NEW q, q = <<>>, NEW r, NEW k, NEW n, NEW v, Owed(q, r, k, n, v)
  PROVE  Holds(r, k, n, v)
<1>1. DOMAIN q = {}
  OBVIOUS
<1> QED
  BY <1>1 DEF Owed, Pending

LEMMA PassRestoring ==
  ASSUME device \in Devices, NEW q \in Seq(Instructions), q # <<>>, NEW r, NEW t,
         FxOK(r), Through(Head(q), r, t), Passing(Head(q)), Restoring(q, r)
  PROVE  FxOK(t) /\ Restoring(Tail(q), t)
<1>1. asked \in {"uninstall", "reinstall"} /\ FxForWindows(r)
  BY DEF Restoring
<1>2. PICK p \in Seq(Instructions) :
        /\ q = p \o After
        /\ NoCalls(p) /\ KeepsFx(p) /\ MakesNothing(p)
        /\ \A s \in allGuidValueNames : Owed(p, r, "Fx", s, Target(s))
  BY DEF Restoring
<1>3. p # <<>>
  BY <1>1, <1>2, AfterText, JoinTail
<1>4. Head(q) = Head(p) /\ Tail(q) = Tail(p) \o After /\ Tail(p) \in Seq(Instructions)
  BY <1>1, <1>2, <1>3, AfterText, JoinTail
<1>5. /\ NoCalls(Tail(p)) /\ KeepsFx(Tail(p)) /\ MakesNothing(Tail(p))
      /\ Head(p).when # "call" /\ Head(p).op.op # "createKey"
      /\ ~(Head(p).op.op = "deleteKey" /\ Head(p).op.key = "Fx")
  BY <1>2, <1>3, TailAll
<1>6. \A s \in allGuidValueNames : Owed(Tail(p), t, "Fx", s, Target(s))
  BY <1>2, <1>3, <1>4, PassOwed, DriverFacts, Names, Paths
<1>7. FxOK(t) /\ FxForWindows(t)
  BY <1>1, <1>4, <1>5 DEF FxOK, FxIsKept, FxForWindows, Through
<1> QED
  BY <1>1, <1>4, <1>5, <1>6, <1>7 DEF Restoring

LEMMA PassEmptying ==
  ASSUME device \in Devices, NEW q \in Seq(Instructions), q # <<>>, NEW r, NEW t,
         FxOK(r), Through(Head(q), r, t), Emptying(q, r)
  PROVE  FxOK(t) /\ (Emptying(Tail(q), t) \/ Restoring(Tail(q), t))
<1> DEFINE d == deleteIfEmpty("Fx")
           U == UninstallTail \o After
           Z == <<d>> \o U
<1>1. asked \in {"uninstall", "reinstall"} /\ Driver = Gone
  BY DEF Emptying
<1>2. PICK p \in Seq(Instructions) :
        /\ q = p \o Z /\ NoCalls(p)
        /\ \A n \in OwnNames : Owed(p, r, "Fx", n, None)
  BY DEF Emptying
<1>3. d \in Instructions
  BY MadeOf, OwnThings
<1>4. U \in Seq(Instructions)
  BY <1>1, AfterText, UninstallTailText, Joined
<1> HIDE DEF d, U
<1>5. <<d>> \in Seq(Instructions) /\ Head(<<d>>) = d /\ Tail(<<d>>) = <<>> /\ <<d>> # <<>>
  BY <1>3
<1>6. Z \in Seq(Instructions) /\ Head(Z) = d /\ Tail(Z) = U
  <2>1. Z \in Seq(Instructions)
    BY <1>4, <1>5, Joined
  <2>2. Head(Z) = Head(<<d>>) /\ Tail(Z) = Tail(<<d>>) \o U
    BY <1>4, <1>5, JoinTail
  <2>3. Tail(<<d>>) \o U = U
    BY <1>4, <1>5, JoinTail
  <2> QED
    BY <1>5, <2>1, <2>2, <2>3
<1> HIDE DEF Z
<1>7. FxOK(t)
  BY <1>1 DEF FxOK, FxIsKept, Through
<1>8. CASE p = <<>>
  <2>1. Head(q) = d /\ Tail(q) = U
    BY <1>2, <1>6, <1>8, JoinTail
  <2>2. \A n \in OwnNames : Holds(r, "Fx", n, None)
    BY <1>2, <1>8, DoneOwed
  <2>3. FxForWindows(t)
    BY <1>1, <2>1, <2>2 DEF Through, d, FxOK
  <2>4. \A s \in allGuidValueNames : Target(s) = None /\ s \in OwnNames
    BY <1>1, DriverFacts, OwnThings
  <2>5. \A s \in allGuidValueNames : Holds(t, "Fx", s, Target(s))
    <3>1. \A n, w : w = None => ~Disturbs(d, "Fx", n, w)
      BY DEF Disturbs, d, deleteIfEmpty
    <3>2. \A s \in allGuidValueNames : s \in Name /\ "Fx" \in OwnKeys
      BY Names, Paths
    <3> QED
      BY <2>1, <2>2, <2>4, <3>1, <3>2 DEF Through
  <2>6. \A s \in allGuidValueNames : Owed(UninstallTail, t, "Fx", s, Target(s))
    BY <2>5, UninstallTailText DEF Owed
  <2>7. Restoring(U, t)
    BY <1>1, <2>3, <2>6, UninstallTailText DEF Restoring, U
  <2> QED
    BY <1>7, <2>1, <2>7
<1>9. CASE p # <<>>
  <2>1. Head(q) = Head(p) /\ Tail(q) = Tail(p) \o Z /\ Tail(p) \in Seq(Instructions)
    BY <1>2, <1>6, <1>9, JoinTail
  <2>2. NoCalls(Tail(p))
    BY <1>2, <1>9, TailAll
  <2>3. \A n \in OwnNames : n \in Name
    BY Names DEF OwnNames
  <2>4. \A n \in OwnNames : Owed(Tail(p), t, "Fx", n, None)
    BY <1>2, <1>9, <2>1, <2>3, PassOwed, Paths
  <2>5. Emptying(Tail(q), t)
    BY <1>1, <2>1, <2>2, <2>4 DEF Emptying, Z, U, d
  <2> QED
    BY <1>7, <2>5
<1> QED
  BY <1>8, <1>9

LEMMA CleanThrough ==
  ASSUME NEW r, NEW t, FxOK(r), Clean(r),
         t["Fx"] = r["Fx"] /\ t["windows"] = r["windows"]
  PROVE  FxOK(t) /\ Clean(t)
<1> QED
  BY DEF FxOK, FxIsKept, FxIsOurs, Clean, FxForWindows, Holds, HasValue

LEMMA ToFillText ==
  ASSUME InfoOK, selected.pre \in BOOLEAN, selected.post \in BOOLEAN, selected.post => ~device.input
  PROVE  \E F \in Seq(Instructions) :
           /\ F = Filling \o <<Call("applyAsioEntry")>>
           /\ ToFill = <<Call("fxProperties")>> \o F
           /\ ToFill \in Seq(Instructions) /\ ToFill # <<>>
           /\ Head(ToFill) = Call("fxProperties") /\ Tail(ToFill) = F
<1> DEFINE A == <<Call("applyAsioEntry")>>  P == <<Call("fxProperties")>>  F == Filling \o A
<1>1. F \in Seq(Instructions)
  BY FillingText
<1>2. P \in Seq(Instructions) /\ A \in Seq(Instructions) /\ P # <<>>
      /\ Head(P) = Call("fxProperties") /\ Tail(P) = <<>>
  <2>1. Call("fxProperties") \in Instructions /\ Call("applyAsioEntry") \in Instructions
    BY CallsAre DEF Calls
  <2> QED
    BY <2>1
<1>3. Filling \in Seq(Instructions)
  <2> DEFINE C == ChildRecord  M == Middle  D == <<deleteIfThere("Fx", "disableEnhancements")>>
  <2>1. C \in Seq(Instructions) /\ M \in Seq(Instructions)
    BY ChildRecordText, MiddleText
  <2>2. D \in Seq(Instructions)
    <3>1. deleteIfThere("Fx", "disableEnhancements") \in Instructions
      BY MadeOf, OwnThings, Names
    <3> QED
      BY <3>1
  <2>3. Filling = (C \o M) \o D
    BY DEF Filling, Middle
  <2> HIDE DEF C, M, D
  <2> QED
    BY <2>1, <2>2, <2>3, Joined
<1>4. ToFill = (P \o Filling) \o A
  BY DEF ToFill
<1> DEFINE G == Filling
<1> HIDE DEF P, A, G
<1>5. G \in Seq(Instructions) /\ P \o G \in Seq(Instructions)
  BY <1>2, <1>3, Joined DEF G
<1>6. (P \o G) \o A = P \o (G \o A)
  BY <1>2, <1>5, Assoc
<1>7. ToFill = P \o F
  BY <1>4, <1>6 DEF G
<1> HIDE DEF F
<1>8. P \o F \in Seq(Instructions) /\ P \o F # <<>> /\ Head(P \o F) = Head(P) /\ Tail(P \o F) = Tail(P) \o F
  BY <1>1, <1>2, JoinTail, Joined
<1>9. Tail(P) \o F = F
  BY <1>1, <1>2, JoinTail
<1> QED
  BY <1>1, <1>2, <1>7, <1>8, <1>9 DEF F, P, A

LEMMA PassMaking ==
  ASSUME InfoOK, selected.pre \in BOOLEAN, selected.post \in BOOLEAN, selected.post => ~device.input,
         NEW q \in Seq(Instructions), q # <<>>, NEW r, NEW t,
         FxOK(r), Through(Head(q), r, t), Passing(Head(q)), Making(q, r)
  PROVE  FxOK(t) /\ Making(Tail(q), t)
<1> DEFINE a == createKey("ChildApos")  b == createKey("Child")  T == ToFill
<1>1. T \in Seq(Instructions) /\ ~Passing(Head(T))
  BY ToFillText DEF Passing, Call
<1>2. a \in Instructions /\ b \in Instructions
  BY MadeOf, OwnThings
<1>3. \A i \in {a, b} : i.when # "call" /\ i.op.key # "Fx"
  BY DEF createKey
<1> HIDE DEF a, b, T
<1>4. /\ <<a, b>> \in Seq(Instructions) /\ <<b>> \in Seq(Instructions)
      /\ <<a, b>> # <<>> /\ <<b>> # <<>> /\ Head(<<a, b>>) = a /\ Head(<<b>>) = b
      /\ Tail(<<a, b>>) = <<b>> /\ Tail(<<b>>) = <<>> /\ <<>> \o T = T
  BY <1>1, <1>2, JoinTail
<1>5. q # T
  BY <1>1
<1>6. q = <<a, b>> \o T \/ q = <<b>> \o T
  BY <1>5 DEF Making, a, b, T
<1>7. Head(q) \in {a, b} /\ Tail(q) \in {<<b>> \o T, T}
  BY <1>1, <1>4, <1>6, JoinTail
<1>8. FxOK(t) /\ Clean(t)
  BY <1>3, <1>7, CleanThrough DEF Making, Through
<1> QED
  BY <1>7, <1>8 DEF Making, b, T, a

LEMMA PassFilling ==
  ASSUME device \in Devices, InfoOK,
         NEW q \in Seq(Instructions), q # <<>>, NEW r, NEW t,
         FxOK(r), Through(Head(q), r, t), Passing(Head(q)), FillingIn(q, r)
  PROVE  FxOK(t) /\ FillingIn(Tail(q), t)
<1> DEFINE i == Head(q)
<1>1. /\ KeepsFx(Tail(q)) /\ (i.when # "call" => ~(i.op.op = "deleteKey" /\ i.op.key = "Fx"))
      /\ CallsOnly(Tail(q), {"mayThrow", "createFx", "widen", "applyAsioEntry"})
      /\ EntryLast(Tail(q))
  BY TailAll DEF FillingIn
<1>2. FxOK(t)
  BY <1>1 DEF FxOK, FxIsKept, Through
<1>3. \A k \in OwnKeys, n \in Name, v \in Value \cup {None} :
        Owed(q, r, k, n, v) => Owed(Tail(q), t, k, n, v)
  BY PassOwed
<1>4. /\ "Fx" \in OwnKeys /\ "Child" \in OwnKeys /\ "record" \in OwnKeys
      /\ \A s \in allGuidValueNames : s \in Name
      /\ {"DisableAutomaticAdjustment", "PreMixChild", "PostMixChild", "TargetKind"} \subseteq Name
      /\ {"preMix", "postMix", "true", "", "exclusive"} \subseteq Value
  BY Paths, Names
<1>5. \E e \in Codes : Tells(e, t) /\ \A s \in allGuidValueNames : Owed(Tail(q), t, "Child", s, e[s])
  <2>1. PICK e \in Codes : Tells(e, r) /\ \A s \in allGuidValueNames : Owed(q, r, "Child", s, e[s])
    BY DEF FillingIn, Filled
  <2>2. \A s \in allGuidValueNames : e[s] \in Value
    BY DriverFacts DEF Codes
  <2>3. Tells(e, t)
    BY <2>1 DEF Tells, Through
  <2> QED
    BY <1>3, <1>4, <2>1, <2>2, <2>3
<1>6. ASSUME NEW s \in allGuidValueNames
      PROVE  IF Chosen(s) # None THEN Owed(Tail(q), t, "Fx", s, Chosen(s)) ELSE NeverOurs(Tail(q), t, s)
  <2>1. IF Chosen(s) # None THEN Owed(q, r, "Fx", s, Chosen(s)) ELSE NeverOurs(q, r, s)
    BY DEF FillingIn, Filled
  <2>2. CASE Chosen(s) # None
    <3>1. Chosen(s) \in Value
      BY <1>4, <2>2 DEF Chosen
    <3> QED
      BY <1>3, <1>4, <2>1, <2>2, <3>1
  <2>3. CASE Chosen(s) = None
    <3>1. /\ r["Fx"] # Gone => r["Fx"][s] \notin Ours
          /\ \A j \in DOMAIN q : ~PutsOurs(q[j], s)
      BY <2>1, <2>3 DEF NeverOurs
    <3>2. 1 \in DOMAIN q /\ q[1] = i /\ \A j \in DOMAIN Tail(q) : j + 1 \in DOMAIN q /\ Tail(q)[j] = q[j + 1]
      OBVIOUS
    <3>3. ~PutsOurs(i, s) /\ \A j \in DOMAIN Tail(q) : ~PutsOurs(Tail(q)[j], s)
      BY <3>1, <3>2
    <3>4. t["Fx"] # Gone => t["Fx"][s] \notin Ours
      BY <3>1, <3>3 DEF Through
    <3> QED
      BY <2>3, <3>3, <3>4 DEF NeverOurs
  <2> QED
    BY <2>2, <2>3
<1>7. /\ Owed(Tail(q), t, "Child", "DisableAutomaticAdjustment", IF selected.adjust THEN None ELSE "true")
      /\ ~selected.usePre => Owed(Tail(q), t, "Child", "PreMixChild", "")
      /\ ~selected.usePost => Owed(Tail(q), t, "Child", "PostMixChild", "")
  <2> DEFINE v == IF selected.adjust THEN None ELSE "true"
  <2>1. /\ Owed(q, r, "Child", "DisableAutomaticAdjustment", v)
        /\ ~selected.usePre => Owed(q, r, "Child", "PreMixChild", "")
        /\ ~selected.usePost => Owed(q, r, "Child", "PostMixChild", "")
    BY DEF FillingIn, Filled
  <2>2. v \in Value \cup {None}
    BY <1>4
  <2> HIDE DEF v
  <2>3. Owed(Tail(q), t, "Child", "DisableAutomaticAdjustment", v)
    BY <1>3, <1>4, <2>1, <2>2
  <2>4. /\ ~selected.usePre => Owed(Tail(q), t, "Child", "PreMixChild", "")
        /\ ~selected.usePost => Owed(Tail(q), t, "Child", "PostMixChild", "")
    BY <1>3, <1>4, <2>1
  <2> QED
    BY <2>3, <2>4 DEF v
<1>8. \/ EntryComes(Tail(q))
      \/ Owed(Tail(q), t, "record", "TargetKind", IF selected.exclusive THEN "exclusive" ELSE None)
  <2> DEFINE v == IF selected.exclusive THEN "exclusive" ELSE None
  <2>1. EntryComes(q) \/ Owed(q, r, "record", "TargetKind", v)
    BY DEF FillingIn, Filled
  <2>2. v \in Value \cup {None}
    BY <1>4
  <2> HIDE DEF v
  <2>3. EntryComes(q) => EntryComes(Tail(q))
    BY TailAll DEF Passing, Call
  <2>4. Owed(q, r, "record", "TargetKind", v) => Owed(Tail(q), t, "record", "TargetKind", v)
    BY <1>3, <1>4, <2>2
  <2> QED
    BY <2>1, <2>3, <2>4 DEF v
<1>9. Filled(Tail(q), t)
  BY <1>5, <1>6, <1>7, <1>8 DEF Filled
<1> QED
  BY <1>1, <1>2, <1>9 DEF FillingIn

LEMMA PassFinishing ==
  ASSUME NEW q \in Seq(Instructions), q # <<>>, NEW r, NEW t,
         FxOK(r), Through(Head(q), r, t), Passing(Head(q)), Finishing(q, r),
         Head(q).when = "call" /\ Head(q).f # "createFx" => t = r
  PROVE  FxOK(t) /\ Finishing(Tail(q), t)
<1> DEFINE i == Head(q)  F == {"removeAsioEntry", "applyAsioEntry", "mayThrow"}
<1>1. OnlyEntries(q) /\ CallsOnly(q, F) /\ Clean(r)
  BY DEF Finishing
<1>2. /\ OnlyEntries(Tail(q)) /\ (i.when # "call" => i.op.key \in {"record", "entry"})
      /\ CallsOnly(Tail(q), F) /\ (i.when = "call" => i.f \in F)
  BY <1>1, TailAll
<1>3. t["Fx"] = r["Fx"] /\ t["windows"] = r["windows"]
  BY <1>2 DEF Through
<1>4. FxOK(t) /\ Clean(t)
  BY <1>1, <1>3, CleanThrough
<1> QED
  BY <1>2, <1>4 DEF Finishing

LEMMA CallThrough ==
  ASSUME NEW i, i.when = "call", NEW r
  PROVE  Through(i, r, r)
<1>1. \A k, n, v : ~Sets(i, k, n, v)
  BY DEF Sets
<1>2. i # deleteIfEmpty("Fx")
  BY DEF deleteIfEmpty
<1> QED
  BY <1>1, <1>2 DEF Through

(* Where an operation and its second half begin.                            *)
LEMMA BeginText ==
  /\ asked \in {"uninstall", "reinstall"} =>
       /\ Head(Operation[asked]) = Call("uninstallWithin") /\ Operation[asked] # <<>>
       /\ Tail(Operation[asked]) = After
  /\ Head(InstallCalls) = Call("installWithin") /\ InstallCalls # <<>>
  /\ Tail(InstallCalls) = <<Call("applyAsioEntry")>>
  /\ <<Call("applyAsioEntry")>> \in Seq(Instructions)
<1> DEFINE c1 == Call("removeAsioEntry")  c2 == Call("uninstallWithin")  c3 == Call("load")
           c4 == Call("installWithin")  c5 == Call("applyAsioEntry")
<1>1. /\ c1 \in Instructions /\ c2 \in Instructions /\ c3 \in Instructions
      /\ c4 \in Instructions /\ c5 \in Instructions
  BY CallsAre DEF Calls
<1>2. /\ Operation["uninstall"] = <<c2, c1>> /\ Operation["reinstall"] = <<c2, c3, c4, c5>>
      /\ InstallCalls = <<c4, c5>>
  BY DEF Operation, InstallCalls
<1> HIDE DEF c1, c2, c3, c4, c5
<1>3. /\ Head(<<c2, c1>>) = c2 /\ Head(<<c2, c3, c4, c5>>) = c2 /\ Head(<<c4, c5>>) = c4
      /\ Tail(<<c4, c5>>) = <<c5>> /\ <<c5>> \in Seq(Instructions)
      /\ <<c2, c1>> # <<>> /\ <<c2, c3, c4, c5>> # <<>> /\ <<c4, c5>> # <<>>
  BY <1>1
<1>4. asked \in {"uninstall", "reinstall"} =>
        Head(Operation[asked]) = c2 /\ Operation[asked] # <<>> /\ Tail(Operation[asked]) = After
  BY <1>2, <1>3 DEF After
<1> QED
  BY <1>2, <1>3, <1>4 DEF c2, c4, c5

(* The selection of an operation that installs.                             *)
SelectionOK ==
  /\ selected.pre \in BOOLEAN /\ selected.post \in BOOLEAN
  /\ selected.adjust \in BOOLEAN /\ selected.exclusive \in BOOLEAN
  /\ asked # "uninstall" => (selected.post => ~device.input)

LEMMA PassWork ==
  ASSUME device \in Devices, InfoOK, SelectionOK,
         NEW q \in Seq(Instructions), q # <<>>, NEW r, NEW t,
         FxOK(r), Through(Head(q), r, t), Passing(Head(q)),
         Head(q).when = "call" /\ Head(q).f # "createFx" => t = r,
         Work(q, r)
  PROVE  FxOK(t) /\ Work(Tail(q), t)
<1>1. CASE AtUninstall(q, r)
  <2>1. Head(q) = Call("uninstallWithin")
    BY <1>1, BeginText DEF AtUninstall
  <2> QED
    BY <2>1 DEF Passing, Call
<1>2. CASE AtInstall(q, r)
  <2>1. Head(q) = Call("installWithin")
    BY <1>2, BeginText DEF AtInstall
  <2> QED
    BY <2>1 DEF Passing, Call
<1>3. CASE Emptying(q, r)
  BY <1>3, PassEmptying DEF Work
<1>4. CASE Restoring(q, r)
  BY <1>4, PassRestoring DEF Work
<1>5. CASE Making(q, r)
  <2>1. selected.post => ~device.input
    BY <1>5 DEF Making, SelectionOK
  <2> QED
    BY <1>5, <2>1, PassMaking DEF Work, SelectionOK
<1>6. CASE FillingIn(q, r)
  BY <1>6, PassFilling DEF Work
<1>7. CASE Finishing(q, r)
  BY <1>7, PassFinishing DEF Work
<1> QED
  BY <1>1, <1>2, <1>3, <1>4, <1>5, <1>6, <1>7 DEF Work

----------------------------------------------------------------------------
(* A call is entered *)

(* What the first instruction says of the stage.                            *)
LEMMA StageOfCall ==
  ASSUME InfoOK, SelectionOK, NEW q \in Seq(Instructions), q # <<>>, NEW r,
         Head(q).when = "call", Work(q, r)
  PROVE  \/ /\ AtUninstall(q, r) /\ Head(q) = Call("uninstallWithin") /\ Tail(q) = After
         \/ /\ asked \in {"uninstall", "reinstall"} /\ q = After /\ Clean(r)
         \/ /\ AtInstall(q, r) /\ Head(q) = Call("installWithin")
            /\ Tail(q) = <<Call("applyAsioEntry")>>
         \/ Making(q, r) /\ q = ToFill
         \/ FillingIn(q, r) /\ Head(q).f \in {"mayThrow", "createFx", "widen", "applyAsioEntry"}
         \/ Finishing(q, r) /\ Head(q).f \in {"removeAsioEntry", "applyAsioEntry", "mayThrow"}
<1>1. CASE AtUninstall(q, r)
  BY <1>1, BeginText DEF AtUninstall
<1>2. CASE AtInstall(q, r)
  BY <1>2, BeginText DEF AtInstall
<1>3. CASE Emptying(q, r)
  <2> DEFINE d == deleteIfEmpty("Fx")
             U == UninstallTail \o After
             Z == <<d>> \o U
  <2>1. PICK p \in Seq(Instructions) : q = p \o Z /\ NoCalls(p)
    BY <1>3 DEF Emptying
  <2>2. d \in Instructions /\ d.when # "call"
    BY MadeOf, OwnThings DEF deleteIfEmpty
  <2>3. U \in Seq(Instructions)
    BY <1>3, AfterText, UninstallTailText, Joined DEF Emptying
  <2> HIDE DEF d, U
  <2>4. <<d>> \in Seq(Instructions) /\ Head(<<d>>) = d /\ <<d>> # <<>>
    BY <2>2
  <2>5. Z \in Seq(Instructions) /\ Head(Z) = d
    BY <2>3, <2>4, JoinTail, Joined
  <2> HIDE DEF Z
  <2>6. CASE p = <<>>
    BY <2>1, <2>2, <2>5, <2>6, JoinTail
  <2>7. CASE p # <<>>
    <3>1. Head(q) = Head(p)
      BY <2>1, <2>5, <2>7, JoinTail
    <3> QED
      BY <2>1, <2>7, <3>1, TailAll
  <2> QED
    BY <2>6, <2>7
<1>4. CASE Restoring(q, r)
  <2>1. PICK p \in Seq(Instructions) :
          q = p \o After /\ NoCalls(p) /\ \A s \in allGuidValueNames : Owed(p, r, "Fx", s, Target(s))
    BY <1>4 DEF Restoring
  <2>2. After \in Seq(Instructions)
    BY <1>4, AfterText DEF Restoring
  <2>3. p = <<>>
    <3> SUFFICES ASSUME p # <<>> PROVE FALSE
      OBVIOUS
    <3>1. Head(q) = Head(p)
      BY <2>1, <2>2, JoinTail
    <3> QED
      BY <2>1, <3>1, TailAll
  <2>4. \A s \in allGuidValueNames : Holds(r, "Fx", s, Target(s))
    BY <2>1, <2>3, DoneOwed
  <2>5. q = After
    BY <2>1, <2>2, <2>3, JoinTail
  <2> QED
    BY <1>4, <2>4, <2>5 DEF Restoring, Clean
<1>5. CASE Making(q, r)
  <2> DEFINE a == createKey("ChildApos")  b == createKey("Child")  T == ToFill
  <2>1. T \in Seq(Instructions)
    BY <1>5, ToFillText DEF Making, SelectionOK
  <2>2. a \in Instructions /\ b \in Instructions /\ a.when # "call" /\ b.when # "call"
    BY MadeOf, OwnThings DEF createKey
  <2>3. q \in {<<a, b>> \o T, <<b>> \o T, T}
    BY <1>5 DEF Making
  <2> HIDE DEF a, b, T
  <2>4. /\ <<a, b>> \in Seq(Instructions) /\ <<b>> \in Seq(Instructions)
        /\ <<a, b>> # <<>> /\ <<b>> # <<>> /\ Head(<<a, b>>) = a /\ Head(<<b>>) = b
    BY <2>2
  <2>5. Head(<<a, b>> \o T) = a /\ Head(<<b>> \o T) = b
    BY <2>1, <2>4, JoinTail
  <2>6. q = T
    BY <2>2, <2>3, <2>5
  <2> QED
    BY <1>5, <2>6 DEF T
<1>6. CASE FillingIn(q, r)
  BY <1>6, TailAll DEF FillingIn
<1>7. CASE Finishing(q, r)
  BY <1>7, TailAll DEF Finishing
<1> QED
  BY <1>1, <1>2, <1>3, <1>4, <1>5, <1>6, <1>7 DEF Work

LEMMA MoreCalls ==
  ASSUME NEW q, NEW F, NEW G, F \subseteq G, CallsOnly(q, F)
  PROVE  CallsOnly(q, G)
<1> QED
  BY DEF CallsOnly

LEMMA EnterUninstall ==
  ASSUME device \in Devices, reg \in Registries, FxOK(reg), InfoTells(reg),
         asked \in {"uninstall", "reinstall"}
  PROVE  Work(uninstallWithin \o After, reg)
<1>1. PICK e \in Codes : Tells(e, reg) /\ info.originals = e
  BY DEF InfoTells
<1>2. After \in Seq(Instructions)
  BY AfterText
<1>3. ASSUME Driver = Gone, NEW p \in Seq(Instructions),
             uninstallWithin = p \o (<<deleteIfEmpty("Fx")>> \o UninstallTail),
             NoCalls(p), \A n \in OwnNames : Owed(p, reg, "Fx", n, None)
      PROVE  Emptying(uninstallWithin \o After, reg)
  <2> DEFINE D == <<deleteIfEmpty("Fx")>>  U == UninstallTail  A == After  u == uninstallWithin
             x == D \o U  y == U \o A  z == D \o y  w == u \o A
  <2>1. D \in Seq(Instructions)
    <3>1. deleteIfEmpty("Fx") \in Instructions
      BY MadeOf, OwnThings
    <3> QED
      BY <3>1
  <2>2. U \in Seq(Instructions)
    BY UninstallTailText
  <2>3. x \in Seq(Instructions) /\ y \in Seq(Instructions) /\ z \in Seq(Instructions)
    BY <1>2, <2>1, <2>2, Joined
  <2>4. u = p \o x
    BY <1>3
  <2>5. u \in Seq(Instructions)
    BY <2>3, <2>4, Joined
  <2>6. Joins(u, p, x) /\ Joins(w, u, A) /\ Joins(x, D, U) /\ Joins(y, U, A) /\ Joins(z, D, y)
    BY <1>2, <2>1, <2>2, <2>3, <2>4, <2>5, Zenon DEF Joins
  <2>7. Joins(x \o A, x, A)
    BY <1>2, <2>3 DEF Joins
  <2> HIDE DEF D, U, A, u, x, y, z, w
  <2>8. Joins(w, p, x \o A) /\ Joins(x \o A, D, y)
    BY <2>6, <2>7, JoinsAssoc
  <2>9. w = p \o z
    BY <2>6, <2>8 DEF Joins
  <2> QED
    BY <1>3, <2>9, Zenon DEF Emptying, w, u, A, z, y, D, U
<1>4. ASSUME FxForWindows(reg), NEW p \in Seq(Instructions), uninstallWithin = p,
             NoCalls(p), KeepsFx(p), MakesNothing(p),
             \A s \in allGuidValueNames : Owed(p, reg, "Fx", s, Target(s))
      PROVE  Restoring(uninstallWithin \o After, reg)
  BY <1>4 DEF Restoring
<1> QED
  BY <1>1, <1>3, <1>4, UninstallText DEF Work

LEMMA EnterInstall ==
  ASSUME InfoOK, SelectionOK, NEW q, NEW r, AtInstall(q, r)
  PROVE  Work(installWithin \o <<Call("applyAsioEntry")>>, r)
<1> DEFINE A == <<Call("applyAsioEntry")>>
<1>1. asked \in {"install", "reinstall"} /\ Clean(r) /\ (selected.post => ~device.input)
  BY DEF AtInstall, SelectionOK
<1>2. CASE Selected
  BY <1>1, <1>2, InstallText DEF Work, Making, SelectionOK
<1>3. CASE ~Selected
  <2>1. installWithin = <<>>
    BY <1>3 DEF installWithin, Selected
  <2>2. A \in Seq(Instructions) /\ DOMAIN A = {1} /\ A[1] = Call("applyAsioEntry")
    BY BeginText
  <2> HIDE DEF A
  <2>3. installWithin \o A = A
    BY <2>1, <2>2, JoinTail
  <2>4. OnlyEntries(A) /\ CallsOnly(A, {"removeAsioEntry", "applyAsioEntry", "mayThrow"})
    BY <2>2 DEF OnlyEntries, CallsOnly, Call
  <2>5. Finishing(A, r)
    BY <1>1, <1>3, <2>4 DEF Finishing
  <2> QED
    BY <2>3, <2>5 DEF Work, A
<1> QED
  BY <1>2, <1>3

LEMMA EnterFilling ==
  ASSUME device \in Devices, reg \in Registries, InfoOK, SelectionOK, FxOK(reg), Making(ToFill, reg)
  PROVE  FillingIn(fxProperties \o Tail(ToFill), reg)
<1>1. asked \in {"install", "reinstall"} /\ Selected /\ Clean(reg) /\ (selected.post => ~device.input)
  BY DEF Making, SelectionOK
<1>2. PICK F \in Seq(Instructions) : F = Filling \o <<Call("applyAsioEntry")>> /\ Tail(ToFill) = F
  BY <1>1, ToFillText DEF SelectionOK
<1>3. /\ KeepsFx(F) /\ CallsOnly(F, {"applyAsioEntry"}) /\ EntryLast(F) /\ EntryComes(F)
      /\ \A s \in allGuidValueNames : \A v : Spared(F, "Child", s, v)
      /\ \A s \in allGuidValueNames :
           IF Chosen(s) # None THEN Pending(F, "Fx", s, Chosen(s))
           ELSE \A i \in DOMAIN F : ~PutsOurs(F[i], s)
      /\ Pending(F, "Child", "DisableAutomaticAdjustment", IF selected.adjust THEN None ELSE "true")
      /\ ~selected.usePre => Pending(F, "Child", "PreMixChild", "")
      /\ ~selected.usePost => Pending(F, "Child", "PostMixChild", "")
  BY <1>1, <1>2, FillingText DEF SelectionOK
<1> DEFINE P == fxProperties  q == P \o F
<1>4. /\ P \in Seq(Instructions)
      /\ CallsOnly(P, {"createFx", "mayThrow"}) /\ KeepsFx(P)
      /\ \E e \in Codes : /\ Tells(e, reg)
                          /\ \A s \in allGuidValueNames : Pending(P, "Child", s, e[s])
      /\ \A s \in allGuidValueNames : \A i \in DOMAIN P : ~PutsOurs(P[i], s)
  BY <1>1, FxPropertiesText
<1> HIDE DEF P
<1>5. q \in Seq(Instructions) /\ KeepsFx(q) /\ EntryLast(q) /\ EntryComes(q)
  <2>1. KeepsFx(q) /\ EntryComes(q)
    BY <1>3, <1>4, JoinAll
  <2>2. EntryLast(q)
    BY <1>3, <1>4, JoinAll
  <2> QED
    BY <1>4, <2>1, <2>2, Joined
<1>6. CallsOnly(q, {"mayThrow", "createFx", "widen", "applyAsioEntry"})
  <2> DEFINE C == {"mayThrow", "createFx", "widen", "applyAsioEntry"}
  <2>0. {"createFx", "mayThrow"} \subseteq C /\ {"applyAsioEntry"} \subseteq C
    OBVIOUS
  <2> HIDE DEF C
  <2>1. CallsOnly(P, C) /\ CallsOnly(F, C)
    BY <1>3, <1>4, <2>0, MoreCalls
  <2>2. CallsOnly(q, C)
    BY <1>4, <2>1, JoinAll
  <2> QED
    BY <2>2 DEF C
<1>7. \E e \in Codes : Tells(e, reg) /\ \A s \in allGuidValueNames : Owed(q, reg, "Child", s, e[s])
  BY <1>3, <1>4, JoinEarly DEF Owed
<1>8. ASSUME NEW s \in allGuidValueNames
      PROVE  IF Chosen(s) # None THEN Owed(q, reg, "Fx", s, Chosen(s)) ELSE NeverOurs(q, reg, s)
  <2>1. CASE Chosen(s) # None
    BY <1>3, <1>4, <2>1, JoinLate DEF Owed
  <2>2. CASE Chosen(s) = None
    <3>1. \A i \in DOMAIN q : ~PutsOurs(q[i], s)
      BY <1>3, <1>4, <2>2, JoinAll
    <3>2. HasValue(reg, "Fx", s) => reg["Fx"][s] \notin Ours
      BY <1>1, CleanIsFree
    <3>3. None \notin Ours
      BY Names, Sentinels DEF Ours
    <3> QED
      BY <2>2, <3>1, <3>2, <3>3 DEF NeverOurs, HasValue
  <2> QED
    BY <2>1, <2>2
<1>9. /\ Pending(q, "Child", "DisableAutomaticAdjustment", IF selected.adjust THEN None ELSE "true")
      /\ ~selected.usePre => Pending(q, "Child", "PreMixChild", "")
      /\ ~selected.usePost => Pending(q, "Child", "PostMixChild", "")
  BY <1>3, <1>4, JoinLate
<1>10. Filled(q, reg)
  BY <1>5, <1>7, <1>8, <1>9 DEF Filled, Owed
<1> QED
  BY <1>1, <1>2, <1>5, <1>6, <1>10 DEF FillingIn, P

LEMMA EnterEntry ==
  ASSUME NEW r, NEW q \in Seq(Instructions), q # <<>>, FillingIn(q, r),
         Head(q) = Call("applyAsioEntry")
  PROVE  Tail(q) = <<>> /\ FillingIn(applyAsioEntry, r)
<1>1. Tail(q) = <<>>
  BY TailAll DEF FillingIn
<1>2. DOMAIN q = {1} /\ q[1] = Call("applyAsioEntry")
  <2>1. Len(Tail(q)) = Len(q) - 1 /\ Len(q) \in Nat /\ DOMAIN q = 1..Len(q) /\ Head(q) = q[1]
    BY HeadTailProperties, LenProperties
  <2>2. Len(Tail(q)) = 0
    <3>1. Len(<<>>) = 0
      OBVIOUS
    <3> QED
      BY <1>1, <3>1, Zenon
  <2>3. Len(q) = 1
    BY <2>1, <2>2
  <2> QED
    BY <2>1, <2>3
<1>3. \A k, n, v : Owed(q, r, k, n, v) => Holds(r, k, n, v)
  BY <1>2 DEF Owed, Pending, Sets, Call
<1> DEFINE A == applyAsioEntry
<1>4. /\ A \in Seq(Instructions) /\ OnlyEntries(A) /\ CallsOnly(A, {"mayThrow"})
      /\ Pending(A, "record", "TargetKind", IF selected.exclusive THEN "exclusive" ELSE None)
  BY EntryText DEF FillingIn
<1> HIDE DEF A
<1>5. /\ KeepsFx(A)
      /\ \A k, n, v : k \in {"Fx", "Child"} => Spared(A, k, n, v)
      /\ \A s : \A i \in DOMAIN A : ~PutsOurs(A[i], s)
  BY <1>4, EntriesApart
<1>6. \A k, n, v : k \in {"Fx", "Child"} /\ Owed(q, r, k, n, v) => Owed(A, r, k, n, v)
  BY <1>3, <1>5 DEF Owed
<1>7. EntryLast(A)
  BY <1>4 DEF EntryLast, CallsOnly, Call
<1>8. CallsOnly(A, {"mayThrow", "createFx", "widen", "applyAsioEntry"})
  BY <1>4, MoreCalls
<1>9. \A s : NeverOurs(q, r, s) => NeverOurs(A, r, s)
  BY <1>5 DEF NeverOurs
<1>10. Filled(q, r)
  BY DEF FillingIn
<1>11. \E e \in Codes : Tells(e, r) /\ \A s \in allGuidValueNames : Owed(A, r, "Child", s, e[s])
  BY <1>6, <1>10 DEF Filled
<1>12. \A s \in allGuidValueNames :
         IF Chosen(s) # None THEN Owed(A, r, "Fx", s, Chosen(s)) ELSE NeverOurs(A, r, s)
  BY <1>6, <1>9, <1>10 DEF Filled
<1>13. /\ Owed(A, r, "Child", "DisableAutomaticAdjustment", IF selected.adjust THEN None ELSE "true")
       /\ ~selected.usePre => Owed(A, r, "Child", "PreMixChild", "")
       /\ ~selected.usePost => Owed(A, r, "Child", "PostMixChild", "")
  BY <1>6, <1>10 DEF Filled
<1>14. Filled(A, r)
  BY <1>4, <1>11, <1>12, <1>13 DEF Filled, Owed
<1> QED
  BY <1>1, <1>5, <1>7, <1>8, <1>14 DEF FillingIn, A

LEMMA EnterFinishing ==
  ASSUME NEW r, NEW q \in Seq(Instructions), q # <<>>, Finishing(q, r),
         NEW p \in Seq(Instructions), OnlyEntries(p), CallsOnly(p, {"mayThrow"})
  PROVE  Finishing(p \o Tail(q), r)
<1> DEFINE C == {"removeAsioEntry", "applyAsioEntry", "mayThrow"}
<1>1. OnlyEntries(Tail(q)) /\ CallsOnly(Tail(q), C) /\ Tail(q) \in Seq(Instructions)
  BY TailAll DEF Finishing
<1>2. CallsOnly(p, C)
  BY MoreCalls
<1> HIDE DEF C
<1>3. OnlyEntries(p \o Tail(q)) /\ CallsOnly(p \o Tail(q), C)
  BY <1>1, <1>2, JoinAll
<1> QED
  BY <1>3 DEF Finishing, C

LEMMA EnterWork ==
  ASSUME device \in Devices, reg \in Registries, InfoOK, SelectionOK, FxOK(reg), InfoTells(reg),
         NEW q \in Seq(Instructions), q # <<>>, Head(q).when = "call",
         Head(q).f \notin {"load", "createFx", "widen"}, Work(q, reg)
  PROVE  Work(Expansion(Head(q).f) \o Tail(q), reg)
<1> DEFINE f == Head(q).f
<1>1. \A g : Call(g).f = g
  BY DEF Call
<1>2. Tail(q) \in Seq(Instructions)
  OBVIOUS
<1>3. CASE AtUninstall(q, reg) /\ Head(q) = Call("uninstallWithin") /\ Tail(q) = After
  <2>1. Expansion(f) = uninstallWithin
    BY <1>1, <1>3 DEF Expansion
  <2>2. Work(uninstallWithin \o After, reg)
    BY <1>3, EnterUninstall DEF AtUninstall
  <2> QED
    BY <1>3, <2>1, <2>2
<1>4. CASE asked \in {"uninstall", "reinstall"} /\ q = After /\ Clean(reg)
  <2>1. asked = "uninstall"
    BY <1>1, <1>4, AfterText
  <2>2. q = <<Call("removeAsioEntry")>>
    BY <1>4, <2>1, AfterText
  <2>3. DOMAIN q = {1} /\ q[1] = Call("removeAsioEntry") /\ Head(q) = Call("removeAsioEntry")
    BY <2>2
  <2>4. Finishing(q, reg)
    BY <1>1, <1>4, <2>1, <2>3 DEF Finishing, OnlyEntries, CallsOnly, Call
  <2>5. Expansion(f) = removeAsioEntry
    BY <1>1, <2>3 DEF Expansion
  <2>6. CallsOnly(removeAsioEntry, {"mayThrow"})
    BY EntryText DEF CallsOnly, NoCalls
  <2>7. Finishing(removeAsioEntry \o Tail(q), reg)
    BY <2>4, <2>6, EntryText, EnterFinishing
  <2> QED
    BY <2>5, <2>7 DEF Work
<1>5. CASE AtInstall(q, reg) /\ Head(q) = Call("installWithin") /\ Tail(q) = <<Call("applyAsioEntry")>>
  <2>1. Expansion(f) = installWithin
    BY <1>1, <1>5 DEF Expansion
  <2>2. Work(installWithin \o <<Call("applyAsioEntry")>>, reg)
    BY <1>5, EnterInstall
  <2> QED
    BY <1>5, <2>1, <2>2
<1>6. CASE Making(q, reg) /\ q = ToFill
  <2>1. Head(q) = Call("fxProperties")
    BY <1>6, ToFillText DEF SelectionOK, Making
  <2>2. Expansion(f) = fxProperties
    BY <1>1, <2>1 DEF Expansion
  <2>3. FillingIn(fxProperties \o Tail(ToFill), reg)
    BY <1>6, EnterFilling
  <2> QED
    BY <1>6, <2>2, <2>3 DEF Work
<1>7. CASE FillingIn(q, reg) /\ f = "mayThrow"
  <2>1. Expansion(f) = <<>> /\ Through(Head(q), reg, reg) /\ Passing(Head(q))
    BY <1>7, CallThrough DEF Expansion, Passing
  <2>2. FillingIn(Tail(q), reg)
    BY <1>7, <2>1, PassFilling
  <2>3. <<>> \o Tail(q) = Tail(q)
    BY <1>2
  <2> QED
    BY <2>1, <2>2, <2>3 DEF Work
<1>8. CASE FillingIn(q, reg) /\ f = "applyAsioEntry"
  <2>1. Head(q) = Call("applyAsioEntry")
    <3>1. Head(q) \in Instructions
      OBVIOUS
    <3>2. Head(q) \in [when : {"call"}, f : Calls]
      BY <3>1 DEF Instructions
    <3> QED
      BY <1>8, <3>2 DEF Call
  <2>2. Tail(q) = <<>> /\ FillingIn(applyAsioEntry, reg)
    BY <1>8, <2>1, EnterEntry
  <2>3. applyAsioEntry \o <<>> = applyAsioEntry
    BY EntryText, ConcatEmptySeq
  <2>4. Expansion(f) = applyAsioEntry
    BY <1>8 DEF Expansion
  <2> QED
    BY <2>2, <2>3, <2>4 DEF Work
<1>9. CASE Finishing(q, reg) /\ f \in {"removeAsioEntry", "applyAsioEntry", "mayThrow"}
  <2>1. /\ <<>> \in Seq(Instructions) /\ OnlyEntries(<<>>) /\ CallsOnly(<<>>, {"mayThrow"})
    BY DEF OnlyEntries, CallsOnly
  <2>2. CallsOnly(removeAsioEntry, {"mayThrow"})
    BY EntryText DEF CallsOnly, NoCalls
  <2>3. Expansion(f) \in {removeAsioEntry, applyAsioEntry, <<>>}
    BY <1>9 DEF Expansion
  <2>4. /\ Expansion(f) \in Seq(Instructions) /\ OnlyEntries(Expansion(f))
        /\ CallsOnly(Expansion(f), {"mayThrow"})
    BY <2>1, <2>2, <2>3, EntryText
  <2>5. Finishing(Expansion(f) \o Tail(q), reg)
    BY <1>9, <2>4, EnterFinishing
  <2> QED
    BY <2>5 DEF Work
<1> QED
  BY <1>3, <1>4, <1>5, <1>6, <1>7, <1>8, <1>9, StageOfCall

(* The load in the middle of a reinstall.                                   *)
LEMMA ReloadWork ==
  ASSUME InfoOK, SelectionOK, NEW r,
         NEW q \in Seq(Instructions), q # <<>>, Head(q) = Call("load"), Work(q, r)
  PROVE  Clean(r) /\ AtInstall(Tail(q), r)
<1>1. Call("load").when = "call" /\ Call("load").f = "load" /\ \A g : Call(g).f = g
  BY DEF Call
<1>2. ~(Making(q, r) /\ q = ToFill)
  BY <1>1, ToFillText DEF Making, SelectionOK
<1>3. asked \in {"uninstall", "reinstall"} /\ q = After /\ Clean(r)
  BY <1>1, <1>2, StageOfCall
<1>4. asked # "uninstall"
  <2> SUFFICES ASSUME asked = "uninstall" PROVE FALSE
    OBVIOUS
  <2>1. After = <<Call("removeAsioEntry")>>
    BY AfterText
  <2>2. Head(q) = Call("removeAsioEntry")
    BY <1>3, <2>1
  <2> QED
    BY <1>1, <2>2
<1> QED
  BY <1>3, <1>4, AfterText DEF AtInstall

(* FxProperties was refused, and is tried again with wider permissions.     *)
LEMMA RefusedWork ==
  ASSUME device \in Devices, InfoOK, SelectionOK, NEW r, FxOK(r),
         NEW q \in Seq(Instructions), q # <<>>, Head(q) = Call("createFx"), Work(q, r)
  PROVE  Work(<<Call("widen"), createKey("Fx")>> \o Tail(q), r)
<1> DEFINE a == Call("widen")  b == createKey("Fx")  P == <<a, b>>  T == Tail(q)  w == P \o T
<1>1. Call("createFx").when = "call" /\ Call("createFx").f = "createFx" /\ \A g : Call(g).f = g
  BY DEF Call
<1>2. FillingIn(q, r)
  <2>1. ~(Making(q, r) /\ q = ToFill)
    BY <1>1, ToFillText DEF Making, SelectionOK
  <2>2. ~(asked \in {"uninstall", "reinstall"} /\ q = After /\ Clean(r))
    BY <1>1, AfterText DEF Passing
  <2> QED
    BY <1>1, <2>1, <2>2, StageOfCall
<1>3. FillingIn(T, r)
  BY <1>1, <1>2, PassFilling, CallThrough DEF Passing
<1>4. T \in Seq(Instructions)
  OBVIOUS
<1>5. a \in Instructions /\ b \in Instructions
  BY CallsAre, MadeOf, OwnThings DEF Calls
<1>6. a.when = "call" /\ a.f = "widen" /\ b.when # "call" /\ b.op.op = "createKey"
  BY DEF Call, createKey
<1> HIDE DEF a, b, T
<1>7. P \in Seq(Instructions) /\ DOMAIN P = {1, 2} /\ P[1] = a /\ P[2] = b
  BY <1>5
<1> HIDE DEF P
<1>8. /\ KeepsFx(P) /\ CallsOnly(P, {"widen"})
      /\ \A k, n, v : Spared(P, k, n, v)
      /\ \A s : \A i \in DOMAIN P : ~PutsOurs(P[i], s)
  BY <1>6, <1>7 DEF KeepsFx, CallsOnly, Spared, Disturbs, PutsOurs
<1>9. /\ KeepsFx(T) /\ CallsOnly(T, {"mayThrow", "createFx", "widen", "applyAsioEntry"})
      /\ EntryLast(T) /\ Filled(T, r) /\ asked \in {"install", "reinstall"} /\ Selected
  BY <1>3 DEF FillingIn
<1>10. \A k, n, v : Owed(T, r, k, n, v) => Owed(w, r, k, n, v)
  <2> SUFFICES ASSUME NEW k, NEW n, NEW v, Owed(T, r, k, n, v) PROVE Owed(w, r, k, n, v)
    OBVIOUS
  <2>1. CASE Holds(r, k, n, v) /\ Spared(T, k, n, v)
    BY <1>4, <1>7, <1>8, <2>1, JoinSpared DEF Owed
  <2>2. CASE Pending(T, k, n, v)
    BY <1>4, <1>7, <2>2, JoinLate DEF Owed
  <2> QED
    BY <2>1, <2>2 DEF Owed
<1>11. \A s : NeverOurs(T, r, s) => NeverOurs(w, r, s)
  BY <1>4, <1>7, <1>8, JoinAll DEF NeverOurs
<1>12. KeepsFx(w) /\ EntryLast(w) /\ (EntryComes(T) => EntryComes(w))
  <2>1. EntryLast(w)
    BY <1>4, <1>7, <1>8, <1>9, JoinAll
  <2>2. KeepsFx(w) /\ (EntryComes(T) => EntryComes(w))
    BY <1>4, <1>7, <1>8, <1>9, JoinAll
  <2> QED
    BY <2>1, <2>2
<1>13. CallsOnly(w, {"mayThrow", "createFx", "widen", "applyAsioEntry"})
  <2> DEFINE C == {"mayThrow", "createFx", "widen", "applyAsioEntry"}
  <2>0. {"widen"} \subseteq C
    OBVIOUS
  <2> HIDE DEF C
  <2>1. CallsOnly(P, C)
    BY <1>8, <2>0, MoreCalls
  <2>2. CallsOnly(T, C)
    BY <1>9 DEF C
  <2>3. CallsOnly(w, C)
    BY <1>4, <1>7, <2>1, <2>2, JoinAll
  <2> QED
    BY <2>3 DEF C
<1> HIDE DEF w
<1>14. \E e \in Codes : Tells(e, r) /\ \A s \in allGuidValueNames : Owed(w, r, "Child", s, e[s])
  BY <1>9, <1>10 DEF Filled
<1>15. \A s \in allGuidValueNames :
         IF Chosen(s) # None THEN Owed(w, r, "Fx", s, Chosen(s)) ELSE NeverOurs(w, r, s)
  BY <1>9, <1>10, <1>11 DEF Filled
<1>16. /\ Owed(w, r, "Child", "DisableAutomaticAdjustment", IF selected.adjust THEN None ELSE "true")
       /\ ~selected.usePre => Owed(w, r, "Child", "PreMixChild", "")
       /\ ~selected.usePost => Owed(w, r, "Child", "PostMixChild", "")
       /\ \/ EntryComes(w)
          \/ Owed(w, r, "record", "TargetKind", IF selected.exclusive THEN "exclusive" ELSE None)
  BY <1>9, <1>10, <1>12 DEF Filled
<1>17. FillingIn(w, r)
  BY <1>9, <1>12, <1>13, <1>14, <1>15, <1>16 DEF FillingIn, Filled
<1> QED
  BY <1>17 DEF Work, w, P, T, a, b

(* Windows' key comes.                                                      *)
LEMMA AlikeWork ==
  ASSUME device \in Devices, NEW r, NEW t, Alike(r, t), NEW q, Work(q, r)
  PROVE  Work(q, t)
<1>1. \A k \in OwnKeys, n \in Name, v \in Value \cup {None} : Holds(r, k, n, v) <=> Holds(t, k, n, v)
  BY AlikeKeeps
<1>2. /\ \A e : Tells(e, r) => Tells(e, t)
      /\ t["Fx"] = r["Fx"]
      /\ FxForWindows(r) => FxForWindows(t)
  BY AlikeKeeps
<1>3. \A p, k, n, v : (k \in OwnKeys /\ n \in Name /\ v \in Value \cup {None} /\ Owed(p, r, k, n, v))
                        => Owed(p, t, k, n, v)
  BY <1>1 DEF Owed
<1>4. /\ "Fx" \in OwnKeys /\ "Child" \in OwnKeys /\ "record" \in OwnKeys
      /\ \A n \in OwnNames : n \in Name
      /\ {"DisableAutomaticAdjustment", "PreMixChild", "PostMixChild", "TargetKind"} \subseteq Name
      /\ {"preMix", "postMix", "true", "", "exclusive"} \subseteq Value
  BY Paths, Names DEF OwnNames
<1>5. \A s \in allGuidValueNames : s \in Name /\ Target(s) \in Value \cup {None}
  BY Names, DriverFacts
<1>6. (Clean(r) => Clean(t)) /\ (AtRest(r) => AtRest(t))
  BY AlikeRest
<1>7. AtUninstall(q, r) => AtUninstall(q, t)
  BY <1>6 DEF AtUninstall
<1>8. Emptying(q, r) => Emptying(q, t)
  BY <1>3, <1>4 DEF Emptying
<1>9. Restoring(q, r) => Restoring(q, t)
  BY <1>2, <1>3, <1>4, <1>5 DEF Restoring
<1>10. AtInstall(q, r) => AtInstall(q, t)
  BY <1>6 DEF AtInstall
<1>11. Making(q, r) => Making(q, t)
  BY <1>6 DEF Making
<1>12. ASSUME FillingIn(q, r) PROVE FillingIn(q, t)
  <2>1. Filled(q, r)
    BY <1>12 DEF FillingIn
  <2>2. \E e \in Codes : Tells(e, t) /\ \A s \in allGuidValueNames : Owed(q, t, "Child", s, e[s])
    <3>1. PICK e \in Codes : Tells(e, r) /\ \A s \in allGuidValueNames : Owed(q, r, "Child", s, e[s])
      BY <2>1 DEF Filled
    <3>2. \A s \in allGuidValueNames : e[s] \in Value
      BY DriverFacts DEF Codes
    <3> QED
      BY <1>2, <1>3, <1>4, <1>5, <3>1, <3>2
  <2>3. ASSUME NEW s \in allGuidValueNames
        PROVE  IF Chosen(s) # None THEN Owed(q, t, "Fx", s, Chosen(s)) ELSE NeverOurs(q, t, s)
    <3>1. IF Chosen(s) # None THEN Owed(q, r, "Fx", s, Chosen(s)) ELSE NeverOurs(q, r, s)
      BY <2>1 DEF Filled
    <3>2. Chosen(s) \in Value \cup {None}
      BY <1>4 DEF Chosen
    <3>3. NeverOurs(q, r, s) => NeverOurs(q, t, s)
      BY <1>2 DEF NeverOurs
    <3> QED
      BY <1>3, <1>4, <1>5, <3>1, <3>2, <3>3
  <2>4. /\ Owed(q, t, "Child", "DisableAutomaticAdjustment", IF selected.adjust THEN None ELSE "true")
        /\ ~selected.usePre => Owed(q, t, "Child", "PreMixChild", "")
        /\ ~selected.usePost => Owed(q, t, "Child", "PostMixChild", "")
    <3> DEFINE v == IF selected.adjust THEN None ELSE "true"
    <3>1. v \in Value \cup {None}
      BY <1>4
    <3>2. Owed(q, r, "Child", "DisableAutomaticAdjustment", v)
      BY <2>1 DEF Filled
    <3> HIDE DEF v
    <3>3. Owed(q, t, "Child", "DisableAutomaticAdjustment", v)
      BY <1>3, <1>4, <3>1, <3>2
    <3>4. /\ ~selected.usePre => Owed(q, t, "Child", "PreMixChild", "")
          /\ ~selected.usePost => Owed(q, t, "Child", "PostMixChild", "")
      BY <1>3, <1>4, <2>1 DEF Filled
    <3> QED
      BY <3>3, <3>4 DEF v
  <2>5. EntryComes(q) \/ Owed(q, t, "record", "TargetKind", IF selected.exclusive THEN "exclusive" ELSE None)
    <3> DEFINE v == IF selected.exclusive THEN "exclusive" ELSE None
    <3>1. v \in Value \cup {None}
      BY <1>4
    <3>2. EntryComes(q) \/ Owed(q, r, "record", "TargetKind", v)
      BY <2>1 DEF Filled
    <3> HIDE DEF v
    <3>3. EntryComes(q) \/ Owed(q, t, "record", "TargetKind", v)
      BY <1>3, <1>4, <3>1, <3>2
    <3> QED
      BY <3>3 DEF v
  <2>6. Filled(q, t)
    BY <2>2, <2>3, <2>4, <2>5 DEF Filled
  <2> QED
    BY <1>12, <2>6 DEF FillingIn
<1>13. Finishing(q, r) => Finishing(q, t)
  BY <1>6 DEF Finishing
<1> QED
  BY <1>7, <1>8, <1>9, <1>10, <1>11, <1>12, <1>13 DEF Work

(* An operation begins.                                                     *)
LEMMA BeginWork ==
  ASSUME asked \in DOMAIN Operation, NEW r, AtRest(r), asked = "install" => foundAt(r) = {}
  PROVE  FxOK(r) /\ Work(Operation[asked], r)
<1>1. FxOK(r)
  BY DEF AtRest
<1>2. asked \in {"install", "uninstall", "reinstall"}
  BY DEF Operation
<1>3. CASE asked = "install"
  <2>1. Clean(r)
    BY <1>3 DEF AtRest, Installed
  <2> QED
    BY <1>1, <1>3, <2>1 DEF Work, AtInstall, InstallCalls
<1>4. CASE asked # "install"
  BY <1>1, <1>2, <1>4 DEF Work, AtUninstall
<1> QED
  BY <1>3, <1>4

(* Nothing is left to do.                                                   *)
LEMMA DoneWork ==
  ASSUME InfoOK, SelectionOK, NEW q, q = <<>>, NEW r, FxOK(r), Work(q, r)
  PROVE  \/ Finishing(q, r)
         \/ FillingIn(q, r)
<1>1. ~AtUninstall(q, r)
  BY BeginText DEF AtUninstall
<1>2. ~AtInstall(q, r)
  BY BeginText DEF AtInstall
<1>3. ~Restoring(q, r)
  <2> SUFFICES ASSUME Restoring(q, r) PROVE FALSE
    OBVIOUS
  <2>1. PICK p \in Seq(Instructions) : q = p \o After
    BY DEF Restoring
  <2>2. After \in Seq(Instructions) /\ After # <<>>
    BY AfterText DEF Restoring
  <2> QED
    BY <2>1, <2>2, JoinTail
<1>4. ~Emptying(q, r)
  <2> SUFFICES ASSUME Emptying(q, r) PROVE FALSE
    OBVIOUS
  <2> DEFINE d == deleteIfEmpty("Fx")
             U == UninstallTail \o After
             Z == <<d>> \o U
  <2>1. PICK p \in Seq(Instructions) : q = p \o Z
    BY DEF Emptying
  <2>2. d \in Instructions
    BY MadeOf, OwnThings
  <2>3. U \in Seq(Instructions)
    BY AfterText, UninstallTailText, Joined DEF Emptying
  <2> HIDE DEF d, U
  <2>4. <<d>> \in Seq(Instructions) /\ <<d>> # <<>>
    BY <2>2
  <2>5. Z \in Seq(Instructions) /\ Z # <<>>
    BY <2>3, <2>4, JoinTail, Joined
  <2> HIDE DEF Z
  <2> QED
    BY <2>1, <2>5, JoinTail
<1>5. ~Making(q, r)
  <2> SUFFICES ASSUME Making(q, r) PROVE FALSE
    OBVIOUS
  <2> DEFINE a == createKey("ChildApos")  b == createKey("Child")  T == ToFill
  <2>1. T \in Seq(Instructions) /\ T # <<>>
    BY ToFillText DEF Making, SelectionOK
  <2>2. a \in Instructions /\ b \in Instructions
    BY MadeOf, OwnThings
  <2>3. q \in {<<a, b>> \o T, <<b>> \o T, T}
    BY DEF Making
  <2> HIDE DEF a, b, T
  <2>4. /\ <<a, b>> \in Seq(Instructions) /\ <<b>> \in Seq(Instructions)
        /\ <<a, b>> # <<>> /\ <<b>> # <<>>
    BY <2>2
  <2> QED
    BY <2>1, <2>3, <2>4, JoinTail
<1> QED
  BY <1>1, <1>2, <1>3, <1>4, <1>5 DEF Work

----------------------------------------------------------------------------
(* What an installation reads back as *)

ReadsAs(r) ==
  LET c == Loaded(r).current
  IN  /\ Loaded(r).installed
      /\ c.mode = selected.mode \/ (selected.mode = "SFX_EFX" /\ ~selected.post)
      /\ <<c.pre, c.post, c.adjust, c.exclusive>>
           = <<selected.pre, selected.post, selected.adjust, selected.exclusive>>
      /\ (c.usePre => selected.usePre) /\ (c.usePost => selected.usePost)

LEMMA FilledReads ==
  ASSUME device \in Devices, InfoOK, SelectionOK, NEW q, q = <<>>, NEW r, FillingIn(q, r)
  PROVE  Installed(r) /\ ReadsAs(r)
<1>1. Filled(q, r) /\ Selected
  BY DEF FillingIn
<1>2. ~EntryComes(q)
  BY DEF EntryComes
<1>3. \A k, n, v : Owed(q, r, k, n, v) => Holds(r, k, n, v)
  BY DoneOwed
<1>4. \E e \in Codes : Tells(e, r) /\ \A s \in allGuidValueNames : Holds(r, "Child", s, e[s])
  BY <1>1, <1>3 DEF Filled
<1>5. \A s \in allGuidValueNames : IF Chosen(s) # None THEN Holds(r, "Fx", s, Chosen(s))
                                   ELSE r["Fx"] # Gone => r["Fx"][s] \notin Ours
  BY <1>1, <1>3 DEF Filled, NeverOurs
<1>6. /\ Holds(r, "Child", "DisableAutomaticAdjustment", IF selected.adjust THEN None ELSE "true")
      /\ ~selected.usePre => Holds(r, "Child", "PreMixChild", "")
      /\ ~selected.usePost => Holds(r, "Child", "PostMixChild", "")
      /\ Holds(r, "record", "TargetKind", IF selected.exclusive THEN "exclusive" ELSE None)
  BY <1>1, <1>2, <1>3 DEF Filled
<1>7. "preMix" # None /\ "postMix" # None /\ "true" # None /\ "" # None /\ "exclusive" # None
  BY Names, Sentinels
<1>8. \A s \in allGuidValueNames :
        s \in foundAt(r) <=> (selected.pre /\ s = preSlot) \/ (selected.post /\ s = postSlot)
  BY <1>5, <1>7 DEF Chosen, Holds, HasValue, foundAt, Ours
<1>9. /\ preSlot \in allGuidValueNames /\ postSlot \in allGuidValueNames
      /\ IF selected.mode = "LFX_GFX" THEN preSlot = "lfx" /\ postSlot = "gfx"
         ELSE preSlot = "sfx" /\ postSlot = IF selected.mode = "SFX_MFX" THEN "mfx" ELSE "efx"
  BY SlotsApart
<1>10. foundAt(r) \subseteq allGuidValueNames /\ foundAt(r) # {}
  BY <1>1, <1>8, <1>9 DEF foundAt, Selected
<1>11. Recorded(r)
  <2>1. PICK e \in Codes : \A s \in allGuidValueNames : Holds(r, "Child", s, e[s])
    BY <1>4
  <2>2. "lfx" \in allGuidValueNames
    BY DEF allGuidValueNames
  <2>3. e["lfx"] # None
    BY <2>2, DriverFacts DEF Codes
  <2>4. r["Child"] # Gone
    BY <2>1, <2>2, <2>3 DEF Holds
  <2> QED
    BY <1>10, <2>4 DEF Recorded
<1>12. Installed(r)
  BY <1>4, <1>10 DEF Installed
<1> DEFINE c == Loaded(r).current
<1>13. /\ Loaded(r).installed
       /\ c.mode = LoadedMode(r)
       /\ c.pre = (foundAt(r) \cap {"lfx", "sfx"} # {})
       /\ c.post = (foundAt(r) \cap {"gfx", "mfx", "efx"} # {})
       /\ c.adjust = ~HasValue(r, "Child", "DisableAutomaticAdjustment")
       /\ c.exclusive = (HasValue(r, "record", "TargetKind") /\ r["record"]["TargetKind"] = "exclusive")
       /\ c.usePre => r["Child"]["PreMixChild"] # ""
       /\ c.usePost => r["Child"]["PostMixChild"] # ""
  BY <1>10, <1>11 DEF Loaded
<1> HIDE DEF c
<1>14. c.mode = selected.mode \/ (selected.mode = "SFX_EFX" /\ ~selected.post)
  <2>1. LoadedMode(r) = IF foundAt(r) \cap {"lfx", "gfx"} # {} THEN "LFX_GFX"
                        ELSE IF "efx" \in foundAt(r) THEN "SFX_EFX" ELSE "SFX_MFX"
    <3>1. r["Fx"] # Gone
      BY <1>10 DEF foundAt, HasValue
    <3> QED
      BY <1>11, <3>1 DEF LoadedMode
  <2>2. CASE selected.mode = "LFX_GFX"
    <3>1. foundAt(r) \cap {"lfx", "gfx"} # {}
      BY <1>1, <1>8, <1>9, <2>2 DEF Selected
    <3> QED
      BY <1>13, <2>1, <2>2, <3>1
  <2>3. CASE selected.mode # "LFX_GFX"
    <3>1. foundAt(r) \cap {"lfx", "gfx"} = {}
      BY <1>8, <1>9, <1>10, <2>3
    <3>2. "efx" \in foundAt(r) <=> selected.post /\ selected.mode # "SFX_MFX"
      <4>1. "efx" \in allGuidValueNames
        BY DEF allGuidValueNames
      <4> QED
        BY <1>8, <1>9, <2>3, <4>1
    <3>3. selected.mode \in {"SFX_MFX", "SFX_EFX"}
      BY <2>3 DEF InfoOK, InstallModes
    <3> QED
      BY <1>13, <2>1, <3>1, <3>2, <3>3
  <2> QED
    BY <2>2, <2>3
<1>15. c.pre = selected.pre /\ c.post = selected.post
  <2>1. foundAt(r) \cap {"lfx", "sfx"} # {} <=> selected.pre
    BY <1>8, <1>9, <1>10
  <2>2. foundAt(r) \cap {"gfx", "mfx", "efx"} # {} <=> selected.post
    BY <1>8, <1>9, <1>10
  <2> QED
    BY <1>13, <2>1, <2>2 DEF SelectionOK
<1>16. c.adjust = selected.adjust
  BY <1>6, <1>7, <1>13 DEF SelectionOK, Holds, HasValue
<1>17. c.exclusive = selected.exclusive
  BY <1>6, <1>7, <1>13 DEF SelectionOK, Holds, HasValue
<1>18. (c.usePre => selected.usePre) /\ (c.usePost => selected.usePost)
  BY <1>6, <1>7, <1>13 DEF Holds
<1> QED
  BY <1>12, <1>13, <1>14, <1>15, <1>16, <1>17, <1>18 DEF ReadsAs, c

----------------------------------------------------------------------------
(* What the stages depend on *)

LEMMA DeviceFrame ==
  ASSUME device' = device
  PROVE  /\ \A r : /\ AtRest(r)' <=> AtRest(r)
                   /\ Clean(r)' <=> Clean(r)
                   /\ FxOK(r)' <=> FxOK(r)
                   /\ FxForWindows(r)' <=> FxForWindows(r)
         /\ Driver' = Driver /\ Codes' = Codes
         /\ \A s : Target(s)' = Target(s)
         /\ \A e, r : Tells(e, r)' <=> Tells(e, r)
         /\ \A r : LoadedMode(r)' = LoadedMode(r) /\ Loaded(r)' = Loaded(r)
<1>1. Driver' = Driver /\ \A s : Target(s)' = Target(s)
  BY DEF Driver, Target
<1>2. KeyCode' = KeyCode
  BY DEF KeyCode
<1>3. ValueCode' = ValueCode
  BY <1>1 DEF ValueCode
<1>4. Codes' = Codes
  BY <1>2, <1>3 DEF Codes
<1>5. \A e, r : Tells(e, r)' <=> Tells(e, r)
  BY <1>1, <1>2, <1>3 DEF Tells
<1>6. \A r : (FxOK(r)' <=> FxOK(r)) /\ (FxForWindows(r)' <=> FxForWindows(r))
  BY <1>1 DEF FxOK, FxIsKept, FxIsOurs, FxForWindows
<1>7. \A r : Clean(r)' <=> Clean(r)
  BY <1>1, <1>6 DEF Clean
<1>8. \A r : Installed(r)' <=> Installed(r)
  BY <1>4, <1>5 DEF Installed
<1>9. \A r : AtRest(r)' <=> AtRest(r)
  BY <1>6, <1>7, <1>8 DEF AtRest
<1>10. \A r : LoadedMode(r)' = LoadedMode(r)
  BY DEF LoadedMode
<1>11. \A r : Loaded(r)' = Loaded(r)
  BY <1>10 DEF Loaded
<1> QED
  BY <1>1, <1>4, <1>5, <1>6, <1>7, <1>9, <1>10, <1>11

LEMMA StageFrame ==
  ASSUME UNCHANGED <<device, info, selected, asked>>
  PROVE  /\ \A q, r : Work(q, r)' <=> Work(q, r)
         /\ \A r : InfoTells(r)' <=> InfoTells(r)
<1>1. /\ \A r : /\ AtRest(r)' <=> AtRest(r)
                /\ Clean(r)' <=> Clean(r)
                /\ FxForWindows(r)' <=> FxForWindows(r)
      /\ Driver' = Driver /\ Codes' = Codes
      /\ \A s : Target(s)' = Target(s)
      /\ \A e, r : Tells(e, r)' <=> Tells(e, r)
  BY DeviceFrame
<1>2. Selected' = Selected /\ preSlot' = preSlot /\ postSlot' = postSlot /\ After' = After
  BY DEF Selected, preSlot, postSlot, After
<1>3. \A s : Chosen(s)' = Chosen(s)
  BY <1>2 DEF Chosen
<1>4. ToFill' = ToFill
  <2>1. \A s, t : getOriginal(s, t)' = getOriginal(s, t)
    BY <1>2 DEF getOriginal
  <2>2. getOriginalAPOPreMix' = getOriginalAPOPreMix /\ getOriginalAPOPostMix' = getOriginalAPOPostMix
    BY <1>2, <2>1 DEF getOriginalAPOPreMix, getOriginalAPOPostMix
  <2>3. ChildRecord' = ChildRecord /\ populated' = populated
    BY <1>2, <2>2 DEF ChildRecord, populated
  <2>4. Filling' = Filling
    BY <2>3 DEF Filling
  <2> QED
    BY <2>4 DEF ToFill
<1>5. \A q, r : AtUninstall(q, r)' <=> AtUninstall(q, r)
  BY <1>1 DEF AtUninstall
<1>6. \A q, r : Emptying(q, r)' <=> Emptying(q, r)
  BY <1>1, <1>2 DEF Emptying
<1>7. \A q, r : Restoring(q, r)' <=> Restoring(q, r)
  BY <1>1, <1>2 DEF Restoring
<1>8. \A q, r : AtInstall(q, r)' <=> AtInstall(q, r)
  BY <1>1 DEF AtInstall, InstallCalls
<1>9. \A q, r : Making(q, r)' <=> Making(q, r)
  BY <1>1, <1>2, <1>4 DEF Making
<1>10. \A q, r : Filled(q, r)' <=> Filled(q, r)
  BY <1>1, <1>3 DEF Filled
<1>11. \A q, r : FillingIn(q, r)' <=> FillingIn(q, r)
  BY <1>2, <1>10 DEF FillingIn
<1>12. \A q, r : Finishing(q, r)' <=> Finishing(q, r)
  BY <1>1, <1>2 DEF Finishing
<1>13. \A q, r : Work(q, r)' <=> Work(q, r)
  BY <1>5, <1>6, <1>7, <1>8, <1>9, <1>11, <1>12 DEF Work
<1>14. \A r : InfoTells(r)' <=> InfoTells(r)
  BY <1>1 DEF InfoTells
<1> QED
  BY <1>13, <1>14

----------------------------------------------------------------------------
(* The session *)

LEMMA LoadedBooleans ==
  ASSUME NEW r
  PROVE  LET c == Loaded(r).current
         IN  /\ c.pre \in BOOLEAN /\ c.post \in BOOLEAN
             /\ c.adjust \in BOOLEAN /\ c.exclusive \in BOOLEAN
<1> DEFINE c == Loaded(r).current
<1>1. /\ c.pre = (Recorded(r) => foundAt(r) \cap {"lfx", "sfx"} # {})
      /\ c.post = IF Recorded(r) THEN foundAt(r) \cap {"gfx", "mfx", "efx"} # {} ELSE ~device.input
      /\ c.adjust = ~(Recorded(r) /\ HasValue(r, "Child", "DisableAutomaticAdjustment"))
      /\ c.exclusive = (HasValue(r, "record", "TargetKind") /\ r["record"]["TargetKind"] = "exclusive")
  BY DEF Loaded
<1> HIDE DEF c
<1> QED
  BY <1>1 DEF c

LEMMA InstallInside == status = "open" /\ SessionOK => session = "busy" /\ asked \in DOMAIN Operation /\ SelectionOK
<1> QED
  BY DEF SessionOK, SelectionOK, Closed

LEMMA SessionStep ==
  ASSUME DevInv, SessionOK, [Next]_vars
  PROVE  SessionOK'
<1>1. /\ looked # Idle => status = "open"
      /\ status \in {"open", "failed", "committed", "rolledBack"}
  BY DEF DevInv, TxInv, TxTypeOK, LookFits, Closed
<1>2. DOMAIN Operation = {"install", "uninstall", "reinstall"}
  BY DEF Operation
<1>3. CASE UNCHANGED <<device, selected, session, asked>> /\ UNCHANGED <<status, failures>>
  BY <1>3 DEF SessionOK
<1>4. CASE /\ UNCHANGED <<device, selected, session, asked>> /\ failures' = failures
           /\ status = "open" /\ status' = "failed"
  BY <1>4 DEF SessionOK, Closed
<1>5. CASE skip \/ enter \/ reload
  BY <1>3, <1>5 DEF skip, enter, reload, txVars
<1>6. CASE operate \/ widen
  BY <1>3, <1>6 DEF operate, widen, Look, Widen, devVars
<1>7. CASE change
  BY <1>3, <1>7 DEF change, Change
<1>8. CASE refuse
  BY <1>1, <1>3, <1>4, <1>8 DEF refuse, Refuse
<1>9. CASE throw
  BY <1>4, <1>9 DEF throw, Throw
<1>10. CASE succeed
  <2>1. /\ status' = "committed" /\ session' \in {"closed", "testing"}
        /\ UNCHANGED <<device, selected, asked, failures>>
    BY <1>10 DEF succeed, commit
  <2> QED
    BY <2>1 DEF SessionOK, Closed
<1>11. CASE rollback
  <2>1. CASE undo /\ UNCHANGED devVars
    BY <1>3, <2>1 DEF undo, devVars
  <2>2. CASE rollbackEnds /\ session' = "closed" /\ UNCHANGED <<device, info, selected, asked, todo>>
    <3>1. status' = "rolledBack" /\ failures' = failures
      BY <2>2 DEF rollbackEnds
    <3> QED
      BY <2>2, <3>1 DEF SessionOK, Closed
  <2> QED
    BY <1>11, <2>1, <2>2 DEF rollback
<1>12. CASE windows
  BY <1>3, <1>12 DEF windows, Elsewhere, devVars
<1>13. CASE Open
  <2>1. /\ session = "closed" /\ session' = "open" /\ asked' = "none"
        /\ device' = device /\ status' = status /\ failures' = failures
        /\ selected' = Loaded(reg).current
    BY <1>13 DEF Open, txVars
  <2>2. /\ selected'.pre \in BOOLEAN /\ selected'.post \in BOOLEAN
        /\ selected'.adjust \in BOOLEAN /\ selected'.exclusive \in BOOLEAN
    BY <2>1, LoadedBooleans
  <2> QED
    BY <2>1, <2>2 DEF SessionOK
<1>14. CASE Leave
  BY <1>14 DEF Leave, txVars, SessionOK
<1>15. ASSUME NEW operation \in DOMAIN Operation, Ask(operation)
       PROVE  SessionOK'
  <2>1. /\ device' = device /\ session' = "busy" /\ asked' = operation
        /\ status' = "open" /\ failures' = 0
        /\ selected' \in (IF operation = "uninstall" THEN {selected}
                          ELSE {s \in Selections : s.post => ~device.input})
    BY <1>15 DEF Ask, Begin
  <2>2. CASE operation = "uninstall"
    BY <2>1, <2>2 DEF SessionOK, Closed
  <2>3. CASE operation # "uninstall"
    <3>1. selected' \in InstallState /\ (selected'.post => ~device.input)
      BY <2>1, <2>3, DeviceTree
    <3>2. /\ selected'.pre \in BOOLEAN /\ selected'.post \in BOOLEAN
          /\ selected'.adjust \in BOOLEAN /\ selected'.exclusive \in BOOLEAN
      BY <3>1 DEF InstallState
    <3> QED
      BY <1>2, <2>1, <3>1, <3>2 DEF SessionOK, Closed
  <2> QED
    BY <2>2, <2>3
<1>16. CASE UNCHANGED vars
  BY <1>3, <1>16 DEF vars, txVars, devVars
<1> QED
  BY <1>5, <1>6, <1>7, <1>8, <1>9, <1>10, <1>11, <1>12, <1>13, <1>14, <1>15, <1>16 DEF Next, Run

LEMMA LookedNextStep ==
  ASSUME DevInv, LookedNext, [Next]_vars
  PROVE  LookedNext'
<1>1. status \in Closed => looked = Idle
  BY DEF DevInv, TxInv, ClosedIsEmpty
<1>2. CASE looked' = Idle
  BY <1>2 DEF LookedNext
<1>3. CASE UNCHANGED <<looked, todo>>
  BY <1>3 DEF LookedNext, Next1
<1>4. CASE skip \/ enter \/ reload
  BY <1>2, <1>4 DEF skip, enter, reload, Ready, txVars
<1>5. CASE operate
  <2>1. UNCHANGED todo /\ Next1' = Next1
    BY <1>5 DEF operate, devVars, Next1
  <2>2. CASE Next1.when # "call" /\ Look(Next1.op)
    <3>1. looked'.op = Next1.op
      BY <2>2 DEF Look
    <3> QED
      BY <2>1, <2>2, <3>1 DEF LookedNext
  <2>3. CASE Next1 = Call("createFx") /\ Look(createKey("Fx").op)
    <3>1. looked'.op = createKey("Fx").op
      BY <2>3 DEF Look
    <3> QED
      BY <2>1, <2>3, <3>1 DEF LookedNext
  <2> QED
    BY <1>5, <2>2, <2>3 DEF operate
<1>6. CASE change \/ refuse
  BY <1>2, <1>6 DEF change, refuse, Change, Refuse
<1>7. CASE widen \/ throw
  BY <1>2, <1>7 DEF widen, throw, Widen, Throw
<1>8. CASE succeed
  BY <1>2, <1>8 DEF succeed, commit
<1>9. CASE rollback
  BY <1>3, <1>9 DEF rollback, undo, rollbackEnds, devVars
<1>10. CASE windows \/ Open \/ Leave \/ UNCHANGED vars
  BY <1>3, <1>10 DEF windows, Elsewhere, Open, Leave, vars, txVars, devVars
<1>11. CASE \E operation \in DOMAIN Operation : Ask(operation)
  BY <1>1, <1>2, <1>11 DEF Ask, Begin
<1> QED
  BY <1>4, <1>5, <1>6, <1>7, <1>8, <1>9, <1>10, <1>11 DEF Next, Run

(* The inverse of an own operation takes only own keys back.                *)
LEMMA EntryKeys ==
  ASSUME NEW r, NEW o \in OwnOperations
  PROVE  "windows" \notin KeysOf(EntryFor(r, o))
<1>1. o.key \in OwnKeys /\ o.key # "windows" /\ "windows" \notin Levels[o.key]
  BY Paths DEF OwnOperations
<1>2. o \in Operations
  BY DEF OwnOperations
<1>3. CASE o.op \in {"write", "deleteValue"}
  BY <1>1, <1>3 DEF EntryFor, KeysOf
<1>4. CASE o.op = "createKey"
  BY <1>1, <1>4 DEF EntryFor, KeysOf
<1>5. CASE o.op = "deleteKey"
  BY <1>1, <1>5 DEF EntryFor, KeysOf
<1> QED
  BY <1>2, <1>3, <1>4, <1>5 DEF Operations

LEMMA EntriesStep ==
  ASSUME DevInv, EntriesOwn, [Next]_vars
  PROVE  EntriesOwn'
<1>1. /\ status \in Closed => looked = Idle /\ journal = <<>>
      /\ journal \in Seq(Entries) /\ todo \in Seq(Instructions)
  BY DEF DevInv, TxInv, TxTypeOK, ClosedIsEmpty
<1>2. CASE UNCHANGED <<looked, journal>>
  BY <1>2 DEF EntriesOwn
<1>3. CASE looked' = Idle /\ UNCHANGED journal
  BY <1>3 DEF EntriesOwn
<1>4. CASE skip \/ enter \/ reload
  BY <1>2, <1>4 DEF skip, enter, reload, txVars
<1>5. CASE operate
  <2>1. Next1 \in Instructions
    BY <1>1, <1>5, TailType DEF operate, Ready
  <2>2. Next1.when # "call" => Next1.op \in OwnOperations
    BY <2>1 DEF Instructions
  <2>3. createKey("Fx").op \in OwnOperations
    BY Names, Paths DEF createKey, OwnOperations, Operations
  <2>4. PICK o \in OwnOperations : Look(o)
    BY <1>5, <2>2, <2>3 DEF operate
  <2>5. journal' = journal /\ looked'.entry = EntryFor(reg, o)
    BY <2>4 DEF Look
  <2> QED
    BY <2>5, EntryKeys DEF EntriesOwn
<1>6. CASE change
  <2>1. looked' = Idle /\ looked # Idle /\ journal' \in {journal, Append(journal, looked.entry)}
    BY <1>6 DEF change, Change
  <2>2. CASE journal' = journal
    BY <1>3, <2>1, <2>2
  <2>3. CASE journal' = Append(journal, looked.entry)
    <3>1. \A i \in 1..Len(journal') : \/ i \in 1..Len(journal) /\ journal'[i] = journal[i]
                                     \/ journal'[i] = looked.entry
      BY <1>1, <2>3
    <3> QED
      BY <2>1, <3>1 DEF EntriesOwn
  <2> QED
    BY <2>1, <2>2, <2>3
<1>7. CASE refuse
  BY <1>3, <1>7 DEF refuse, Refuse
<1>8. CASE widen \/ throw
  BY <1>2, <1>8 DEF widen, throw, Widen, Throw
<1>9. CASE succeed
  <2>1. journal' = <<>> /\ looked' = looked /\ looked = Idle
    BY <1>9 DEF succeed, commit
  <2>2. 1..Len(journal') = {}
    BY <2>1
  <2> QED
    BY <2>1, <2>2 DEF EntriesOwn
<1>10. CASE rollback
  <2>1. CASE undo
    <3>1. journal # <<>> /\ journal' = SubSeq(journal, 1, Len(journal) - 1) /\ looked' = looked
      BY <2>1 DEF undo, Forget
    <3>2. \A i \in 1..Len(journal') : i \in 1..Len(journal) /\ journal'[i] = journal[i]
      BY <1>1, <3>1
    <3> QED
      BY <3>1, <3>2 DEF EntriesOwn
  <2>2. CASE rollbackEnds
    BY <1>2, <2>2 DEF rollbackEnds
  <2> QED
    BY <1>10, <2>1, <2>2 DEF rollback
<1>11. CASE windows \/ Open \/ Leave \/ UNCHANGED vars
  BY <1>2, <1>11 DEF windows, Elsewhere, Open, Leave, vars, txVars, devVars
<1>12. CASE \E operation \in DOMAIN Operation : Ask(operation)
  BY <1>2, <1>12 DEF Ask, Begin
<1> QED
  BY <1>4, <1>5, <1>6, <1>7, <1>8, <1>9, <1>10, <1>11, <1>12 DEF Next, Run

----------------------------------------------------------------------------
(* Windows' key and the registry that the operation began with *)

LEMMA UndoneWindows ==
  ASSUME NEW r \in Registries, NEW e \in Entries, e.kind # "Nothing",
         "windows" \notin KeysOf(e), r["windows"] # Gone
  PROVE  Undone(r, e)["windows"] # Gone
<1>1. "windows" \in Key /\ r \in [Key -> Contents \cup {Gone}]
  BY Paths, Names DEF Registries
<1>2. CASE e.kind \in {"DeleteValue", "RestoreValue"}
  <2>1. e.key # "windows"
    BY <1>2 DEF KeysOf
  <2> QED
    BY <1>1, <1>2, <2>1 DEF Undone
<1>3. CASE e.kind = "DeleteKeys"
  <2>1. "windows" \notin Removable(r, e.keys)
    BY <1>3 DEF KeysOf, Removable
  <2> QED
    BY <1>1, <1>3, <2>1 DEF Undone
<1>4. CASE e.kind = "RestoreKey"
  <2>1. e.key # "windows"
    BY <1>4 DEF KeysOf
  <2> QED
    BY <1>1, <1>4, <2>1 DEF Undone
<1> QED
  BY <1>2, <1>3, <1>4 DEF Entries

LEMMA OnlyWindowsStep ==
  ASSUME DevInv, LookedNext, OnlyWindows, EntriesOwn, [Next]_vars
  PROVE  OnlyWindows'
<1>1. /\ reg \in Registries /\ journal \in Seq(Entries)
  BY DEF DevInv, TxInv, TxTypeOK
<1>2. CASE UNCHANGED <<foreign, reg>>
  BY <1>2 DEF OnlyWindows
<1>3. CASE skip \/ enter \/ reload
  BY <1>2, <1>3 DEF skip, enter, reload, txVars
<1>4. CASE operate \/ refuse \/ widen \/ throw \/ succeed
  BY <1>2, <1>4 DEF operate, refuse, widen, throw, succeed, Look, Refuse, Widen, Throw, commit
<1>5. CASE change
  <2>1. foreign' = foreign /\ Through(Next1, reg, reg')
    BY <1>5, ChangeThrough DEF change, Change
  <2>2. reg'["windows"] = reg["windows"]
    BY <2>1 DEF Through
  <2> QED
    BY <2>1, <2>2 DEF OnlyWindows
<1>6. CASE rollback
  <2>1. CASE undo
    <3> DEFINE e == journal[Len(journal)]
    <3>1. journal # <<>> /\ reg' = Undone(reg, e) /\ foreign' = foreign
      BY <2>1 DEF undo
    <3>2. Len(journal) \in 1..Len(journal) /\ e \in Entries
      BY <1>1, <3>1
    <3>3. "windows" \notin KeysOf(e) /\ e.kind # "Nothing"
      BY <3>2 DEF EntriesOwn, DevInv, TxInv, EveryEntryUndoes
    <3> HIDE DEF e
    <3>4. reg["windows"] # Gone => reg'["windows"] # Gone
      BY <1>1, <3>1, <3>2, <3>3, UndoneWindows
    <3> QED
      BY <3>1, <3>4 DEF OnlyWindows
  <2>2. CASE rollbackEnds
    BY <1>2, <2>2 DEF rollbackEnds
  <2> QED
    BY <1>6, <2>1, <2>2 DEF rollback
<1>7. CASE windows
  <2> DEFINE r == [reg EXCEPT !["windows"] = Empty]
  <2>1. reg' = r /\ foreign' = foreign \cup {k \in Key : r[k] # reg[k]}
    BY <1>7 DEF windows, Elsewhere
  <2>2. \A k \in Key \ {"windows"} : r[k] = reg[k]
    BY <1>1 DEF Registries
  <2>3. r["windows"] = Empty /\ Empty # Gone
    BY <1>1, Names, Sentinels DEF Registries, Empty, Contents
  <2> QED
    BY <2>1, <2>2, <2>3 DEF OnlyWindows
<1>8. CASE Open \/ Leave \/ UNCHANGED vars
  BY <1>2, <1>8 DEF Open, Leave, vars, txVars
<1>9. CASE \E operation \in DOMAIN Operation : Ask(operation)
  BY <1>9 DEF Ask, Begin, OnlyWindows
<1> QED
  BY <1>3, <1>4, <1>5, <1>6, <1>7, <1>8, <1>9 DEF Next, Run

LEMMA StartOKStep ==
  ASSUME DevInv, SessionOK, StartOK, RestOK, [Next]_vars
  PROVE  StartOK'
<1>1. before \in Seq(Registries) /\ Len(before) = Len(journal) + 1 /\ journal \in Seq(Entries)
  BY DEF DevInv, TxInv, TxTypeOK
<1>2. CASE Start' = Start /\ UNCHANGED <<device, session>>
  <2>1. AtRest(Start)' <=> AtRest(Start')
    BY <1>2, DeviceFrame
  <2> QED
    BY <1>2, <2>1 DEF StartOK
<1>3. CASE UNCHANGED <<before, device, session>>
  BY <1>2, <1>3 DEF Start
<1>4. CASE session' # "busy"
  BY <1>4 DEF StartOK
<1>5. CASE skip \/ enter \/ reload
  BY <1>3, <1>5 DEF skip, enter, reload, txVars
<1>6. CASE operate \/ refuse \/ widen \/ throw
  BY <1>3, <1>6 DEF operate, refuse, widen, throw, Look, Refuse, Widen, Throw, devVars
<1>7. CASE change
  <2>1. before' \in {before, Append(before, reg')} /\ UNCHANGED <<device, session>>
    BY <1>7 DEF change, Change
  <2>2. before'[1] = before[1]
    BY <1>1, <2>1
  <2> QED
    BY <1>2, <2>1, <2>2 DEF Start
<1>8. CASE succeed
  BY <1>4, <1>8 DEF succeed
<1>9. CASE rollback
  <2>1. CASE undo /\ UNCHANGED devVars
    <3>1. journal # <<>> /\ before' = SubSeq(before, 1, Len(before) - 1)
      BY <2>1 DEF undo, Forget
    <3>2. Len(before) \in Nat /\ Len(before) > 1
      BY <1>1, <3>1
    <3>3. before'[1] = before[1]
      BY <1>1, <3>1, <3>2
    <3> QED
      BY <1>2, <2>1, <3>3 DEF Start, devVars
  <2>2. CASE session' = "closed"
    BY <1>4, <2>2
  <2> QED
    BY <1>9, <2>1, <2>2 DEF rollback
<1>10. CASE windows \/ UNCHANGED vars
  BY <1>3, <1>10 DEF windows, Elsewhere, vars, txVars, devVars
<1>11. CASE Open \/ Leave
  BY <1>4, <1>11 DEF Open, Leave
<1>12. CASE \E operation \in DOMAIN Operation : Ask(operation)
  <2>1. session # "busy" /\ before' = <<reg>> /\ device' = device
    BY <1>12 DEF Ask, Begin, SessionOK
  <2>2. Start' = reg /\ AtRest(reg)
    BY <2>1 DEF Start, RestOK
  <2>3. AtRest(reg)' <=> AtRest(reg')
    BY <2>1, DeviceFrame
  <2>4. \A r : AtRest(r)' <=> AtRest(r)
    BY <2>1, DeviceFrame
  <2> QED
    BY <2>2, <2>4 DEF StartOK
<1> QED
  BY <1>5, <1>6, <1>7, <1>8, <1>9, <1>10, <1>11, <1>12 DEF Next, Run

----------------------------------------------------------------------------
(* The instructions still to do *)

LEMMA TellsKept ==
  ASSUME NEW r, NEW t, r["windows"] # Gone => t["windows"] # Gone, InfoTells(r)
  PROVE  InfoTells(t)
<1> QED
  BY DEF InfoTells, Tells

(* What holds of the variables as they are holds of them primed.            *)
LEMMA Framed ==
  ASSUME UNCHANGED <<device, info, selected, asked>>,
         status' = "open" => FxOK(reg') /\ Work(todo', reg') /\ InfoTells(reg'),
         status' # "open" => session' = "busy"
  PROVE  Working' /\ Told'
<1>1. \A r : FxOK(r)' <=> FxOK(r)
  BY DeviceFrame
<1>2. /\ \A q, r : Work(q, r)' <=> Work(q, r)
      /\ \A r : InfoTells(r)' <=> InfoTells(r)
  BY StageFrame
<1>3. Working'
  BY <1>1, <1>2 DEF Working
<1>4. status' = "open" => InfoTells(reg)'
  BY <1>2
<1> QED
  BY <1>3, <1>4 DEF Told

LEMMA InstructionStep ==
  ASSUME DevInv, SessionOK, LookedNext, Told, Working,
         skip \/ operate \/ change \/ widen \/ throw \/ enter
  PROVE  Working' /\ Told'
<1>1. status = "open" /\ session = "busy" /\ UNCHANGED <<device, info, selected, asked, session>>
  <2>1. looked # Idle => status = "open"
    BY DEF DevInv, TxInv, LookFits
  <2>2. status = "open"
    BY <2>1 DEF skip, operate, change, widen, throw, enter, Ready, Change
  <2>3. UNCHANGED <<device, info, selected, asked, session>>
    BY DEF skip, operate, change, widen, throw, enter, devVars
  <2> QED
    BY <2>2, <2>3, InstallInside
<1>2. /\ device \in Devices /\ InfoOK /\ SelectionOK /\ FxOK(reg) /\ Work(todo, reg) /\ InfoTells(reg)
      /\ todo \in Seq(Instructions) /\ reg \in Registries
  BY <1>1, InstallInside DEF SessionOK, DevInv, TxInv, TxTypeOK, Working, Told
<1>3. SUFFICES status' = "open" => FxOK(reg') /\ Work(todo', reg') /\ InfoTells(reg')
  BY <1>1, Framed
<1>4. ASSUME todo # <<>>, todo' = Tail(todo), Through(Next1, reg, reg'), Passing(Next1),
             Next1.when = "call" /\ Next1.f # "createFx" => reg' = reg
      PROVE  FxOK(reg') /\ Work(todo', reg') /\ InfoTells(reg')
  <2>1. FxOK(reg') /\ Work(Tail(todo), reg')
    BY <1>2, <1>4, PassWork DEF Next1
  <2>2. reg'["windows"] = reg["windows"]
    BY <1>4 DEF Through
  <2> QED
    BY <1>2, <1>4, <2>1, <2>2, TellsKept
<1>5. CASE skip
  <2>1. todo # <<>> /\ todo' = Tail(todo) /\ Next1.when # "call"
    BY <1>5 DEF skip, Ready
  <2> QED
    BY <1>4, <1>5, <2>1, SkipThrough DEF Passing
<1>6. CASE change
  <2>1. todo # <<>> /\ todo' = Tail(todo) /\ looked # Idle
    BY <1>6 DEF change, Change, DevInv, Underway
  <2>2. Next1.when # "call" \/ Next1 = Call("createFx")
    BY <2>1 DEF LookedNext
  <2>3. Call("createFx").f = "createFx"
    BY DEF Call
  <2>4. Passing(Next1) /\ ~(Next1.when = "call" /\ Next1.f # "createFx")
    BY <2>2, <2>3 DEF Passing
  <2> QED
    BY <1>4, <1>6, <2>1, <2>4, ChangeThrough
<1>7. CASE widen
  <2>1. todo # <<>> /\ todo' = Tail(todo) /\ Next1 = Call("widen") /\ reg' = reg
    BY <1>7 DEF widen, Ready, Widen
  <2>2. Next1.when = "call" /\ Next1.f = "widen"
    BY <2>1 DEF Call
  <2> QED
    BY <1>4, <2>1, <2>2, CallThrough DEF Passing
<1>8. CASE throw
  BY <1>8 DEF throw, Throw
<1>9. CASE operate
  BY <1>2, <1>9 DEF operate, Look, devVars
<1>10. CASE enter
  <2>1. /\ todo # <<>> /\ Next1.when = "call" /\ Next1.f \notin {"load", "createFx", "widen"}
        /\ reg' = reg /\ todo' = Expansion(Next1.f) \o Tail(todo)
    BY <1>10 DEF enter, Ready, txVars
  <2>2. Work(Expansion(Next1.f) \o Tail(todo), reg)
    BY <1>2, <2>1, EnterWork DEF Next1
  <2> QED
    BY <1>2, <2>1, <2>2
<1> QED
  BY <1>5, <1>6, <1>7, <1>8, <1>9, <1>10

LEMMA RefuseStep ==
  ASSUME DevInv, SessionOK, LookedNext, Told, Working, refuse
  PROVE  Working' /\ Told'
<1>1. /\ looked # Idle /\ status = "open" /\ session = "busy"
      /\ UNCHANGED <<device, info, selected, asked, session, reg>>
  BY InstallInside DEF refuse, Refuse, DevInv, TxInv, LookFits
<1>2. /\ device \in Devices /\ InfoOK /\ SelectionOK /\ FxOK(reg) /\ Work(todo, reg) /\ InfoTells(reg)
      /\ todo \in Seq(Instructions) /\ todo # <<>>
  BY <1>1, InstallInside DEF SessionOK, DevInv, Underway, Working, Told
<1>3. CASE Next1 = Call("createFx")
  <2>1. todo' = <<Call("widen"), createKey("Fx")>> \o Tail(todo)
    BY <1>3 DEF refuse, AfterRefusal
  <2>2. Work(<<Call("widen"), createKey("Fx")>> \o Tail(todo), reg)
    BY <1>2, <1>3, RefusedWork DEF Next1
  <2> QED
    BY <1>1, <1>2, <2>1, <2>2, Framed
<1>4. CASE Next1 # Call("createFx")
  <2>1. status' = "failed"
    BY <1>4 DEF refuse, Refuse
  <2> QED
    BY <1>1, <2>1, Framed
<1> QED
  BY <1>3, <1>4

LEMMA ReloadStep ==
  ASSUME DevInv, SessionOK, Told, Working, reload
  PROVE  Working' /\ Told'
<1>1. /\ status = "open" /\ session = "busy" /\ todo # <<>> /\ Next1 = Call("load")
      /\ info' \in {Loaded(reg), info} /\ todo' = Tail(todo)
      /\ UNCHANGED <<device, selected, asked, session, reg, status>>
  BY InstallInside DEF reload, Ready, txVars
<1>2. /\ device \in Devices /\ InfoOK /\ SelectionOK /\ FxOK(reg) /\ Work(todo, reg) /\ InfoTells(reg)
      /\ todo \in Seq(Instructions)
  BY <1>1, InstallInside DEF SessionOK, DevInv, Working, Told
<1>3. Clean(reg) /\ AtInstall(Tail(todo), reg)
  BY <1>1, <1>2, ReloadWork DEF Next1
<1>4. \E e \in Codes : Tells(e, reg) /\ info'.originals = e
  <2>1. AtRest(reg)
    BY <1>2, <1>3 DEF AtRest
  <2> QED
    BY <1>1, <1>2, <2>1, LoadTells DEF InfoTells
<1>5. /\ \A r : (Clean(r)' <=> Clean(r)) /\ (FxOK(r)' <=> FxOK(r))
      /\ Codes' = Codes /\ \A e, r : Tells(e, r)' <=> Tells(e, r)
  BY <1>1, DeviceFrame
<1>6. InfoTells(reg)'
  BY <1>1, <1>4, <1>5 DEF InfoTells
<1>7. AtInstall(todo, reg)'
  BY <1>1, <1>3, <1>5 DEF AtInstall, InstallCalls
<1>8. FxOK(reg)'
  BY <1>1, <1>2, <1>5
<1> QED
  BY <1>6, <1>7, <1>8 DEF Working, Told, Work

----------------------------------------------------------------------------
(* Between operations *)

LEMMA ReadsBackIs ==
  ReadsBack <=>
    (status = "committed" /\ session # "busy" /\ asked \in {"install", "reinstall"} /\ Selected
       => ReadsAs(reg))
<1> QED
  BY DEF ReadsBack, ReadsAs, Selected

LEMMA ReadsFrame ==
  ASSUME UNCHANGED <<device, selected>>
  PROVE  (\A r : ReadsAs(r)' <=> ReadsAs(r)) /\ Selected' = Selected
<1>1. \A r : Loaded(r)' = Loaded(r)
  BY DeviceFrame
<1> QED
  BY <1>1 DEF ReadsAs, Selected

(* Within an operation nothing is owed to anybody but the operation.        *)
LEMMA Within ==
  ASSUME session' = "busy", status' \notin Closed, Working', Told'
  PROVE  Standing'
<1> QED
  BY DEF Standing, RestOK, Shown, Uninstalled, ReadsBack, Closed

LEMMA OpenStep ==
  ASSUME SessionOK, Standing, Open
  PROVE  Standing'
<1>1. /\ session = "closed" /\ session' = "open" /\ info' = Loaded(reg) /\ asked' = "none"
      /\ UNCHANGED <<reg, status, device>>
  BY DEF Open, txVars
<1>2. status \in Closed /\ AtRest(reg) /\ device \in Devices
  BY <1>1 DEF Standing, RestOK, SessionOK
<1>3. /\ \A r : AtRest(r)' <=> AtRest(r)
      /\ Codes' = Codes /\ \A e, r : Tells(e, r)' <=> Tells(e, r)
  BY <1>1, DeviceFrame
<1>4. RestOK'
  BY <1>1, <1>2, <1>3 DEF RestOK
<1>5. Told'
  <2>1. \E e \in Codes : Tells(e, reg) /\ info'.originals = e
    BY <1>1, <1>2, LoadTells
  <2> QED
    BY <1>1, <1>3, <2>1 DEF Told, InfoTells
<1>6. Shown'
  <2>1. Loaded(reg).installed = (foundAt(reg) # {})
    BY DEF Loaded
  <2>2. foundAt(reg') = foundAt(reg)
    BY <1>1
  <2> QED
    BY <1>1, <2>1, <2>2 DEF Shown
<1>7. Working' /\ Uninstalled' /\ ReadsBack'
  BY <1>1, <1>2 DEF Working, Uninstalled, ReadsBack, Closed
<1> QED
  BY <1>4, <1>5, <1>6, <1>7 DEF Standing

LEMMA LeaveStep ==
  ASSUME SessionOK, Standing, Leave
  PROVE  Standing'
<1>1. /\ session \in {"open", "testing"} /\ session' = "closed"
      /\ UNCHANGED <<reg, status, device, info, selected, asked, todo>>
  BY DEF Leave, txVars
<1>2. status \in Closed
  BY <1>1 DEF SessionOK
<1>3. \A r : (AtRest(r)' <=> AtRest(r)) /\ (Clean(r)' <=> Clean(r))
  BY <1>1, DeviceFrame
<1>4. RestOK' /\ Uninstalled'
  BY <1>1, <1>3 DEF Standing, RestOK, Uninstalled
<1>5. Told' /\ Shown' /\ Working'
  BY <1>1, <1>2 DEF Told, Shown, Working, Closed
<1>6. ReadsBack'
  <2>1. (\A r : ReadsAs(r)' <=> ReadsAs(r)) /\ Selected' = Selected
    BY <1>1, ReadsFrame
  <2>2. status = "committed" /\ asked \in {"install", "reinstall"} /\ Selected => ReadsAs(reg)
    BY <1>1, ReadsBackIs DEF Standing
  <2>3. ReadsBack' <=>
          (status' = "committed" /\ session' # "busy" /\ asked' \in {"install", "reinstall"} /\ Selected'
             => ReadsAs(reg)')
    BY DEF ReadsBack, ReadsAs, Selected
  <2> QED
    BY <1>1, <2>1, <2>2, <2>3
<1> QED
  BY <1>4, <1>5, <1>6 DEF Standing

LEMMA AskStep ==
  ASSUME SessionOK, Standing, NEW operation \in DOMAIN Operation, Ask(operation)
  PROVE  Standing'
<1>1. /\ session \in {"open", "testing"} /\ session' = "busy"
      /\ asked' = operation /\ todo' = Operation[operation] /\ status' = "open"
      /\ operation = "install" => session = "open" /\ ~info.installed
      /\ UNCHANGED <<reg, device, info>>
      /\ operation \in {"install", "uninstall", "reinstall"}
  BY DEF Ask, Begin, Operation
<1>2. AtRest(reg) /\ InfoTells(reg) /\ (session = "open" => (info.installed <=> foundAt(reg) # {}))
  BY <1>1 DEF Standing, RestOK, Told, Shown
<1>3. /\ \A r : /\ AtRest(r)' <=> AtRest(r)
                /\ Clean(r)' <=> Clean(r)
                /\ FxOK(r)' <=> FxOK(r)
      /\ Codes' = Codes /\ \A e, r : Tells(e, r)' <=> Tells(e, r)
  BY <1>1, DeviceFrame
<1>4. Told'
  BY <1>1, <1>2, <1>3 DEF Told, InfoTells
<1>5. FxOK(reg)'
  BY <1>1, <1>2, <1>3 DEF AtRest
<1>6. Work(todo, reg)'
  <2>1. CASE operation = "install"
    <3>1. Clean(reg)
      BY <1>1, <1>2, <2>1 DEF AtRest, Installed
    <3>2. Clean(reg)'
      BY <1>1, <1>3, <3>1
    <3>3. AtInstall(todo, reg)'
      BY <1>1, <2>1, <3>2 DEF AtInstall, InstallCalls
    <3> QED
      BY <3>3 DEF Work
  <2>2. CASE operation # "install"
    <3>1. AtRest(reg)'
      BY <1>1, <1>2, <1>3
    <3>2. AtUninstall(todo, reg)'
      BY <1>1, <2>2, <3>1 DEF AtUninstall
    <3> QED
      BY <3>2 DEF Work
  <2> QED
    BY <2>1, <2>2
<1> QED
  BY <1>1, <1>4, <1>5, <1>6, Within DEF Working, Closed

(* The operation commits.                                                   *)
LEMMA SucceedStep ==
  ASSUME DevInv, SessionOK, Standing, succeed
  PROVE  Standing'
<1>1. /\ session = "busy" /\ todo = <<>> /\ status = "open" /\ status' = "committed"
      /\ session' \in {"closed", "testing"}
      /\ UNCHANGED <<reg, device, info, selected, asked, todo>>
  BY DEF succeed, commit
<1>2. /\ device \in Devices /\ InfoOK /\ SelectionOK /\ FxOK(reg) /\ Work(todo, reg) /\ InfoTells(reg)
  BY <1>1, InstallInside DEF SessionOK, DevInv, Standing, Working, Told
<1>3. \/ Clean(reg) /\ (asked # "uninstall" => ~Selected)
      \/ asked \in {"install", "reinstall"} /\ Installed(reg) /\ ReadsAs(reg)
  <2>1. CASE Finishing(todo, reg)
    BY <2>1 DEF Finishing
  <2>2. CASE FillingIn(todo, reg)
    <3>1. asked \in {"install", "reinstall"}
      BY <2>2 DEF FillingIn
    <3> QED
      BY <1>1, <1>2, <2>2, <3>1, FilledReads
  <2> QED
    BY <1>1, <1>2, <2>1, <2>2, DoneWork
<1>4. \A r : (AtRest(r)' <=> AtRest(r)) /\ (Clean(r)' <=> Clean(r))
  BY <1>1, DeviceFrame
<1>5. RestOK'
  <2>1. AtRest(reg)
    BY <1>2, <1>3 DEF AtRest
  <2> QED
    BY <1>1, <1>4, <2>1 DEF RestOK
<1>6. Uninstalled'
  BY <1>1, <1>3, <1>4 DEF Uninstalled
<1>7. Told'
  <2>1. \A r : InfoTells(r)' <=> InfoTells(r)
    BY <1>1, StageFrame
  <2> QED
    BY <1>1, <1>2, <2>1 DEF Told
<1>8. Shown' /\ Working'
  BY <1>1 DEF Shown, Working
<1>9. ReadsBack'
  <2>1. (\A r : ReadsAs(r)' <=> ReadsAs(r)) /\ Selected' = Selected
    BY <1>1, ReadsFrame
  <2>2. asked \in {"install", "reinstall"} /\ Selected => ReadsAs(reg)
    BY <1>3
  <2>3. ReadsBack' <=>
          (status' = "committed" /\ session' # "busy" /\ asked' \in {"install", "reinstall"} /\ Selected'
             => ReadsAs(reg)')
    BY DEF ReadsBack, ReadsAs, Selected
  <2> QED
    BY <1>1, <2>1, <2>2, <2>3
<1> QED
  BY <1>5, <1>6, <1>7, <1>8, <1>9 DEF Standing

(* A rollback leaves at most the key that Windows' own needs.               *)
LEMMA LeftAtRest ==
  ASSUME device \in Devices, NEW r, NEW b, Fits(r, b), foreign \subseteq {"windows"},
         "windows" \in foreign => r["windows"] # Gone, AtRest(b)
  PROVE  AtRest(r)
<1>1. Levels["windows"] = {"windows", "Fx"} /\ "windows" \in Key
  BY DeviceTree DEF DeviceLevels, DeviceKeys
<1>2. CASE \A k \in Key \ {"windows"} : r[k] = b[k]
  <2>1. b["windows"] # Gone => r["windows"] # Gone
    BY <1>1 DEF Fits
  <2> QED
    BY <1>2, <2>1, AlikeRest DEF Alike
<1>3. CASE ~(\A k \in Key \ {"windows"} : r[k] = b[k])
  <2>1. PICK k \in Key \ {"windows"} : r[k] # b[k]
    BY <1>3
  <2>2. b[k] = Gone /\ r[k] = Empty /\ \E f \in foreign : k \in Levels[f]
    BY <2>1 DEF Fits
  <2>3. k = "Fx" /\ r["windows"] # Gone
    BY <1>1, <2>2
  <2>4. Driver = Gone
    BY <2>2, <2>3 DEF AtRest, FxOK, FxIsKept
  <2>5. \A n \in Name : r["Fx"][n] = None
    BY <2>2, <2>3 DEF Empty
  <2>6. FxOK(r)
    BY <2>4, <2>5 DEF FxOK, FxIsKept, FxIsOurs
  <2>7. Clean(r)
    BY <2>3, <2>4, <2>5, Names DEF Clean, FxForWindows, Holds, HasValue, Target
  <2> QED
    BY <2>6, <2>7 DEF AtRest
<1> QED
  BY <1>2, <1>3

LEMMA RollbackStep ==
  ASSUME DevInv, OthersInv, SessionOK, OnlyWindows, StartOK, Standing, rollback
  PROVE  Standing'
<1>1. status = "failed" /\ session = "busy" /\ device \in Devices /\ failures = 0
  BY DEF rollback, undo, rollbackEnds, SessionOK, Closed
<1>2. CASE undo /\ UNCHANGED devVars
  <2>1. session' = "busy" /\ status' = "failed"
    BY <1>1, <1>2 DEF undo, devVars
  <2> QED
    BY <2>1, Within DEF Working, Told, Closed
<1>3. CASE rollbackEnds /\ session' = "closed" /\ UNCHANGED <<device, info, selected, asked, todo>>
  <2>1. /\ journal = <<>> /\ status' = "rolledBack" /\ session' = "closed"
        /\ UNCHANGED <<reg, device>>
    BY <1>3 DEF rollbackEnds
  <2>2. Len(before) = 1
    BY <2>1 DEF DevInv, TxInv, TxTypeOK
  <2>3. Fits(reg, Start)
    BY <1>1, <2>2 DEF OthersInv, RestIsLeft, AsLeft, Start
  <2>4. AtRest(reg)
    BY <1>1, <2>3, LeftAtRest DEF StartOK, OnlyWindows
  <2>5. \A r : AtRest(r)' <=> AtRest(r)
    BY <2>1, DeviceFrame
  <2> QED
    BY <2>1, <2>4, <2>5 DEF Standing, RestOK, Told, Shown, Working, Uninstalled, ReadsBack
<1> QED
  BY <1>2, <1>3 DEF rollback

(* Nothing happens, or Windows' key comes.                                  *)
LEMMA AlikeStep ==
  ASSUME DevInv, SessionOK, Standing, Alike(reg, reg'), UNCHANGED <<devVars, status>>
  PROVE  Standing'
<1>1. UNCHANGED <<device, info, selected, session, asked, todo, status>>
  BY DEF devVars
<1>2. /\ device \in Devices /\ InfoOK
  BY DEF SessionOK, DevInv
<1>3. /\ \A r : AtRest(r)' <=> AtRest(r)
      /\ \A r : Clean(r)' <=> Clean(r)
      /\ \A r : FxOK(r)' <=> FxOK(r)
      /\ \A q, r : Work(q, r)' <=> Work(q, r)
      /\ \A r : InfoTells(r)' <=> InfoTells(r)
  BY <1>1, DeviceFrame, StageFrame
<1>4. /\ Clean(reg) => Clean(reg')
      /\ AtRest(reg) => AtRest(reg')
      /\ Loaded(reg') = Loaded(reg) /\ foundAt(reg') = foundAt(reg)
      /\ FxOK(reg) => FxOK(reg')
  BY <1>2, AlikeRest, AlikeKeeps
<1>5. RestOK' /\ Uninstalled'
  BY <1>1, <1>3, <1>4 DEF Standing, RestOK, Uninstalled
<1>6. Told'
  <2>1. InfoTells(reg) => InfoTells(reg')
    BY TellsKept DEF Alike
  <2> QED
    BY <1>1, <1>3, <2>1 DEF Standing, Told
<1>7. Shown'
  BY <1>1, <1>4 DEF Standing, Shown
<1>8. Working'
  <2>1. status = "open" => FxOK(reg') /\ Work(todo, reg')
    BY <1>2, <1>4, AlikeWork DEF Standing, Working
  <2> QED
    BY <1>1, <1>3, <2>1 DEF Working
<1>9. ReadsBack'
  <2>1. (\A r : ReadsAs(r)' <=> ReadsAs(r)) /\ Selected' = Selected
    BY <1>1, ReadsFrame
  <2>2. ReadsAs(reg) => ReadsAs(reg')
    BY <1>4 DEF ReadsAs
  <2>3. ReadsBack' <=>
          (status' = "committed" /\ session' # "busy" /\ asked' \in {"install", "reinstall"} /\ Selected'
             => ReadsAs(reg)')
    BY DEF ReadsBack, ReadsAs, Selected
  <2>4. status = "committed" /\ session # "busy" /\ asked \in {"install", "reinstall"} /\ Selected
          => ReadsAs(reg)
    BY ReadsBackIs DEF Standing
  <2> QED
    BY <1>1, <2>1, <2>2, <2>3, <2>4
<1> QED
  BY <1>5, <1>6, <1>7, <1>8, <1>9 DEF Standing

----------------------------------------------------------------------------
(* The theorems *)

LEMMA InitChain == Init => ChainInv
<1> SUFFICES ASSUME Init PROVE ChainInv
  OBVIOUS
<1>1. /\ device \in Devices /\ session = "closed" /\ asked = "none" /\ status = "committed"
      /\ failures = 0 /\ foreign = {} /\ journal = <<>> /\ looked = Idle
      /\ selected = Loaded(reg).current /\ reg["Fx"] = Driver
  BY Names DEF Init, TxInit, Driver
<1>2. SessionOK
  <2>1. /\ selected.pre \in BOOLEAN /\ selected.post \in BOOLEAN
        /\ selected.adjust \in BOOLEAN /\ selected.exclusive \in BOOLEAN
    BY <1>1, LoadedBooleans
  <2> QED
    BY <1>1, <2>1 DEF SessionOK, Closed
<1>3. OnlyWindows /\ LookedNext /\ StartOK
  BY <1>1 DEF OnlyWindows, LookedNext, StartOK
<1>4. EntriesOwn
  <2>1. 1..Len(journal) = {}
    BY <1>1
  <2> QED
    BY <1>1, <2>1 DEF EntriesOwn
<1>5. AtRest(reg)
  BY <1>1 DEF AtRest, FxOK, FxIsKept, FxIsOurs, Clean, FxForWindows, Holds, HasValue, Target
<1>6. RestOK /\ Told /\ Shown /\ Working /\ Uninstalled /\ ReadsBack
  BY <1>1, <1>5 DEF RestOK, Told, Shown, Working, Uninstalled, ReadsBack
<1> QED
  BY <1>2, <1>3, <1>4, <1>6 DEF ChainInv, Standing

LEMMA StandingStep ==
  ASSUME DevInv, OthersInv, ChainInv, [Next]_vars
  PROVE  Standing'
<1>1. SessionOK /\ OnlyWindows /\ LookedNext /\ StartOK /\ Standing /\ Told /\ Working
  BY DEF ChainInv, Standing
<1>2. ASSUME Working', Told', status' \notin Closed, session' = "busy"
      PROVE  Standing'
  BY <1>2, Within
<1>3. ASSUME skip \/ operate \/ change \/ widen \/ throw \/ enter \/ refuse \/ reload
      PROVE  status' \notin Closed /\ session' = "busy"
  <2>1. looked # Idle => status = "open"
    BY DEF DevInv, TxInv, LookFits
  <2>2. status = "open" /\ session' = session
    BY <1>3, <2>1 DEF skip, operate, change, widen, throw, enter, refuse, reload, Ready, Change,
                      Refuse, devVars
  <2>3. status' \in {"open", "failed"}
    BY <1>3, <2>2 DEF skip, operate, change, widen, throw, enter, refuse, reload, txVars,
                      Look, Change, Refuse, Widen, Throw
  <2> QED
    BY <1>1, <2>2, <2>3, InstallInside DEF Closed
<1>4. CASE skip \/ operate \/ change \/ widen \/ throw \/ enter
  BY <1>1, <1>2, <1>3, <1>4, InstructionStep
<1>5. CASE refuse
  BY <1>1, <1>2, <1>3, <1>5, RefuseStep
<1>6. CASE reload
  BY <1>1, <1>2, <1>3, <1>6, ReloadStep
<1>7. CASE succeed
  BY <1>1, <1>7, SucceedStep
<1>8. CASE rollback
  BY <1>1, <1>8, RollbackStep
<1>9. CASE Open \/ Leave
  BY <1>1, <1>9, OpenStep, LeaveStep
<1>10. CASE \E operation \in DOMAIN Operation : Ask(operation)
  BY <1>1, <1>10, AskStep
<1>11. CASE windows
  <2>1. UNCHANGED <<devVars, status>> /\ reg' = [reg EXCEPT !["windows"] = Empty]
    BY <1>11 DEF windows, Elsewhere
  <2>2. reg \in Registries /\ Empty # Gone /\ "windows" \in Key
    BY Names, Sentinels DEF DevInv, TxInv, TxTypeOK, Empty, Contents
  <2>3. Alike(reg, reg')
    BY <2>1, <2>2 DEF Alike, Registries
  <2> QED
    BY <1>1, <2>1, <2>3, AlikeStep
<1>12. CASE UNCHANGED vars
  <2>1. UNCHANGED <<devVars, status>> /\ reg' = reg
    BY <1>12 DEF vars, txVars
  <2>2. Alike(reg, reg')
    BY <2>1 DEF Alike
  <2> QED
    BY <1>1, <2>1, <2>2, AlikeStep
<1> QED
  BY <1>4, <1>5, <1>6, <1>7, <1>8, <1>9, <1>10, <1>11, <1>12 DEF Next, Run

LEMMA ChainStep == DevInv /\ OthersInv /\ ChainInv /\ [Next]_vars => ChainInv'
<1> SUFFICES ASSUME DevInv, OthersInv, ChainInv, [Next]_vars PROVE ChainInv'
  OBVIOUS
<1>1. SessionOK /\ OnlyWindows /\ EntriesOwn /\ LookedNext /\ StartOK /\ RestOK
  BY DEF ChainInv, Standing
<1>2. SessionOK' /\ OnlyWindows' /\ EntriesOwn' /\ LookedNext' /\ StartOK'
  BY <1>1, SessionStep, OnlyWindowsStep, EntriesStep, LookedNextStep, StartOKStep
<1>3. Standing'
  BY StandingStep
<1> QED
  BY <1>2, <1>3 DEF ChainInv, Standing

LEMMA ChainAlways == Spec => []ChainInv
<1>1. Init => DevInv /\ OthersInv /\ ChainInv
  BY InitDevInv, InitOthers, InitChain DEF Init
<1>2. DevInv /\ OthersInv /\ ChainInv /\ [Next]_vars => (DevInv /\ OthersInv /\ ChainInv)'
  BY DevStep, StepIsTx, OthersStep, ChainStep DEF DevInv
<1> QED
  BY <1>1, <1>2, PTL DEF Spec

(* After an uninstall, and whenever nothing of ours is left in a slot, the  *)
(* driver's chain is what it was, whatever was installed in between, which  *)
(* operations failed halfway and whenever Windows put its own key there     *)
(* (DeviceAPOInfo, installWithin and uninstallWithin; issue #189).          *)
THEOREM DriverChainComesBack == Spec => []DriverGetsItsChainBack
<1>1. ChainInv => DriverGetsItsChainBack
  <2> SUFFICES ASSUME ChainInv, session = "closed",
                      foundAt(reg) = {} \/ (asked = "uninstall" /\ status = "committed")
               PROVE  IF device.driver = Gone
                      THEN reg["Fx"] # Gone =>
                             reg["windows"] # Gone /\ \A s \in allGuidValueNames : reg["Fx"][s] = None
                      ELSE \A s \in allGuidValueNames : reg["Fx"][s] = device.driver[s]
    BY DEF DriverGetsItsChainBack
  <2>1. AtRest(reg)
    BY DEF ChainInv, Standing, RestOK
  <2>2. Clean(reg) /\ FxOK(reg)
    BY <2>1 DEF ChainInv, Standing, Uninstalled, AtRest, Installed
  <2> QED
    BY <2>2 DEF Clean, FxOK, FxIsKept, FxForWindows, Holds, HasValue, Target, Driver
<1> QED
  BY <1>1, ChainAlways, PTL

(* What an install or a reinstall has put in place is what the next start   *)
(* reads as installed, for every selection and whatever the driver left     *)
(* (DeviceAPOInfo, installWithin against load).                             *)
THEOREM InstalledReadsBack == Spec => []ReadsBack
<1>1. ChainInv => ReadsBack
  BY DEF ChainInv, Standing
<1> QED
  BY <1>1, ChainAlways, PTL
=============================================================================
