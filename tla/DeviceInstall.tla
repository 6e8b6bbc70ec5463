--------------------------- MODULE DeviceInstall ---------------------------
(***************************************************************************)
(* devices/DeviceAPOInfo: installing the APO on an audio endpoint, taking  *)
(* it off and installing it anew, each as one registry transaction, while  *)
(* Windows may put a key of its own below FxProperties at any moment.      *)
(*                                                                         *)
(* An operation is a sequence of instructions.  One that is a registry     *)
(* operation looks first and changes then, as RegistryTransaction models   *)
(* it; a call is replaced by the instructions of the function called, so   *)
(* what these depend on is read when the call is reached.  The step of a   *)
(* rollback that itself fails is left to RegistryTransaction.              *)
(***************************************************************************)
EXTENDS RegistryTransaction

CONSTANTS
  Devices,     \* endpoints: the direction, whether it is a combined device, and
               \* what its driver left in FxProperties (Gone: no such key)
  Selections   \* what the user may select

Slots == <<"lfx", "gfx", "sfx", "mfx", "efx">>
allGuidValueNames == {"lfx", "gfx", "sfx", "mfx", "efx"}
Lists == {"sfxModes", "mfxModes", "efxModes"}
ownedFxValueNames == Slots \o <<"sfxModes", "mfxModes", "efxModes", "fxTitle">>
Ours == {"preMix", "postMix"}    \* the CLSIDs of the two APOs

DeviceNames == allGuidValueNames \cup Lists
  \cup {"fxTitle", "disableEnhancements", "PreMixChild", "PostMixChild",
        "DisableAutomaticAdjustment", "Version", "TargetKind"}
DeviceValues == Ours \cup {"vendor1", "vendor2", "!KEY", "!VALUE", "", "vendorModes",
                           "allModes", "title", "true", "2", "exclusive"}
(* Below are the keys as paths from the root: "entry" is the tree of the    *)
(* wrapper's registration, "windows" the key that Windows adds.             *)
DeviceKeys == {"Fx", "windows", "ChildApos", "Child", "Asio", "record", "entry"}
DeviceLevels ==
  [k \in DeviceKeys |-> {k} \cup (CASE k = "windows" -> {"Fx"}
                                    [] k = "Child" -> {"ChildApos"}
                                    [] k = "record" -> {"Asio"}
                                    [] OTHER -> {})]

InstallModes == {"LFX_GFX", "SFX_MFX", "SFX_EFX"}
InstallState == [mode : InstallModes, pre : BOOLEAN, post : BOOLEAN, usePre : BOOLEAN,
                 usePost : BOOLEAN, adjust : BOOLEAN, exclusive : BOOLEAN]

ASSUME DeviceTree ==
  /\ Key = DeviceKeys /\ Name = DeviceNames /\ Value = DeviceValues /\ Opaque = {}
  /\ Levels = DeviceLevels
  /\ Devices \subseteq [input : BOOLEAN, combined : BOOLEAN, driver : Contents \cup {Gone}]
  /\ Selections \subseteq InstallState
(* The APOs of a driver are not ours, nor what a record says of a free slot. *)
ASSUME DriversOwn ==
  \A d \in Devices : d.driver # Gone =>
    \A s \in allGuidValueNames : d.driver[s] \notin Ours \cup {"!KEY", "!VALUE", ""}

VARIABLES
  device,    \* the endpoint, one of Devices
  info,      \* the DeviceAPOInfo: originalApoGuids, installed, currentInstallState
  selected,  \* selectedInstallState
  session,   \* of the program: closed, open, busy or testing
  asked,     \* the operation under way or the last one of the session
  todo       \* the instructions still to do

devVars == <<device, info, selected, session, asked, todo>>
vars == <<txVars, devVars>>

Call(f) == [when |-> "call", f |-> f]
createKey(k) == [when |-> "always", op |-> [op |-> "createKey", key |-> k]]
write(k, n, v) == [when |-> "always", op |-> [op |-> "write", key |-> k, name |-> n, value |-> v]]
writeIfAbsent(k, n, v) == [write(k, n, v) EXCEPT !.when = "absent"]
deleteIfThere(k, n) == [when |-> "there", op |-> [op |-> "deleteValue", key |-> k, name |-> n]]
deleteIfExists(k) == [when |-> "exists", op |-> [op |-> "deleteKey", key |-> k]]
deleteIfEmpty(k) == [when |-> "empty", op |-> [op |-> "deleteKey", key |-> k]]

----------------------------------------------------------------------------
(* load: what the registry says of the endpoint *)

foundAt(r) == {s \in allGuidValueNames : HasValue(r, "Fx", s) /\ r["Fx"][s] \in Ours}
Recorded(r) == foundAt(r) # {} /\ r["Child"] # Gone

originalApoGuids(r) ==
  [s \in allGuidValueNames |->
     CASE Recorded(r) /\ HasValue(r, "Child", s) -> r["Child"][s]
       [] ~(Recorded(r) /\ HasValue(r, "Child", s)) /\ r["Fx"] = Gone -> "!KEY"
       [] OTHER -> IF HasValue(r, "Fx", s) /\ s \notin foundAt(r) THEN r["Fx"][s] ELSE "!VALUE"]

LoadedMode(r) ==
  LET found == foundAt(r)
      has(s) == HasValue(r, "Fx", s)
  IN  CASE Recorded(r) -> IF found \cap {"lfx", "gfx"} # {} THEN "LFX_GFX"
                          ELSE IF "efx" \in found THEN "SFX_EFX" ELSE "SFX_MFX"
        [] r["Fx"] = Gone \/ (found # {} /\ ~Recorded(r)) -> "LFX_GFX"
        [] OTHER -> IF (has("lfx") \/ has("gfx")) /\ ~has("sfx") /\ ~has("mfx") /\ ~has("efx")
                    THEN "LFX_GFX" ELSE IF device.combined THEN "SFX_MFX" ELSE "SFX_EFX"

Loaded(r) ==
  LET said(n) == r["Child"][n] # ""
      known == Recorded(r)
  IN  [originals |-> originalApoGuids(r), installed |-> foundAt(r) # {},
       current |->
         [mode |-> LoadedMode(r),
          pre |-> known => foundAt(r) \cap {"lfx", "sfx"} # {},
          post |-> IF known THEN foundAt(r) \cap {"gfx", "mfx", "efx"} # {} ELSE ~device.input,
          usePre |-> known => said("PreMixChild"),
          usePost |-> ~device.input /\ (known => said("PostMixChild")),
          adjust |-> ~(known /\ HasValue(r, "Child", "DisableAutomaticAdjustment")),
          exclusive |-> HasValue(r, "record", "TargetKind") /\ r["record"]["TargetKind"] = "exclusive"]]

----------------------------------------------------------------------------
(* The instructions of an operation *)

preSlot == IF selected.mode = "LFX_GFX" THEN "lfx" ELSE "sfx"
postSlot == CASE selected.mode = "LFX_GFX" -> "gfx"
              [] selected.mode = "SFX_MFX" -> "mfx"
              [] selected.mode = "SFX_EFX" -> "efx"

(* The driver's APO that ours is to call: the one in its slot, or with both *)
(* of the mode's slots free the one in the other generation's slot.         *)
getOriginal(slot, fallback) ==
  LET g == info.originals
      v == IF g[preSlot] = "!VALUE" /\ g[postSlot] = "!VALUE" THEN g[fallback] ELSE g[slot]
  IN  IF v \in {"!KEY", "!VALUE"} THEN "" ELSE v
getOriginalAPOPreMix ==
  getOriginal(preSlot, IF selected.mode = "LFX_GFX" THEN "sfx" ELSE "lfx")
getOriginalAPOPostMix ==
  getOriginal(postSlot, IF selected.mode = "LFX_GFX" THEN "mfx" ELSE "gfx")

fxProperties ==
  IF reg["Fx"] = Gone
  THEN <<Call("createFx"), write("Fx", "fxTitle", "title")>>
         \o [i \in 1..Len(Slots) |-> write("Child", Slots[i], "!KEY")]
  ELSE [i \in 1..Len(Slots) |->
          write("Child", Slots[i], IF HasValue(reg, "Fx", Slots[i]) THEN reg["Fx"][Slots[i]]
                                   ELSE "!VALUE")]
         \o (IF \E s \in allGuidValueNames : HasValue(reg, "Fx", s) THEN <<Call("mayThrow")>> ELSE <<>>)

Populate(wanted, slot, v) ==
  IF ~wanted THEN <<>>
  ELSE <<write("Fx", slot, v)>>
         \o (CASE slot = "sfx" -> <<writeIfAbsent("Fx", "sfxModes", "allModes")>>
               [] slot = "mfx" -> <<writeIfAbsent("Fx", "mfxModes", "allModes")>>
               [] slot = "efx" -> <<writeIfAbsent("Fx", "efxModes", "allModes")>>
               [] OTHER -> <<>>)
Vacate(slots) == [i \in 1..Len(slots) |-> deleteIfThere("Fx", slots[i])]

installWithin ==
  IF ~selected.pre /\ ~selected.post THEN <<>>
  ELSE LET populated == Populate(selected.pre, preSlot, "preMix")
                          \o Populate(selected.post /\ ~device.input, postSlot, "postMix")
       IN  <<createKey("ChildApos"), createKey("Child"), Call("fxProperties"),
             write("Child", "PreMixChild", IF selected.usePre THEN getOriginalAPOPreMix ELSE ""),
             write("Child", "PostMixChild", IF selected.usePost THEN getOriginalAPOPostMix ELSE ""),
             IF selected.adjust THEN deleteIfThere("Child", "DisableAutomaticAdjustment")
                                ELSE write("Child", "DisableAutomaticAdjustment", "true"),
             write("Child", "Version", "2")>>
           \o (IF selected.mode = "LFX_GFX" THEN populated \o Vacate(<<"sfx", "mfx", "efx">>)
               ELSE Vacate(<<"lfx", "gfx">>) \o populated)
           \o <<deleteIfThere("Fx", "disableEnhancements")>>

(* Mutant: what has to go from a slot that was free is left there.          *)
RestoreNothing(s) ==
  IF info.originals[s] \in {"!VALUE", ""} THEN <<>> ELSE <<write("Fx", s, info.originals[s])>>

Restore(s) ==
  CASE info.originals[s] = "!VALUE" -> <<deleteIfThere("Fx", s)>>
    [] info.originals[s] = "" -> <<>>
    [] OTHER -> <<write("Fx", s, info.originals[s])>>

uninstallWithin ==
  (IF info.originals["lfx"] = "!KEY"
   THEN IF reg["Fx"] = Gone THEN <<>> ELSE Vacate(ownedFxValueNames) \o <<deleteIfEmpty("Fx")>>
   ELSE Restore("lfx") \o Restore("gfx") \o Restore("sfx") \o Restore("mfx") \o Restore("efx"))
    \o <<deleteIfExists("Child"), deleteIfEmpty("ChildApos")>>

removeAsioEntry == <<deleteIfExists("entry"), deleteIfExists("record")>>
(* Mutant: the entry of an earlier installation is not removed first.       *)
ApplyOverWhatIsThere ==
  IF ~selected.exclusive THEN <<>>
  ELSE <<createKey("record"), write("record", "TargetKind", "exclusive"), createKey("entry")>>

applyAsioEntry ==
  removeAsioEntry
    \o (IF ~selected.exclusive \/ (~selected.pre /\ ~selected.post) THEN <<>>
        ELSE <<Call("mayThrow"), createKey("record"), write("record", "TargetKind", "exclusive"),
               createKey("entry")>>)

Operation ==
  [install |-> <<Call("installWithin"), Call("applyAsioEntry")>>,
   uninstall |-> <<Call("uninstallWithin"), Call("removeAsioEntry")>>,
   reinstall |-> <<Call("uninstallWithin"), Call("load"), Call("installWithin"), Call("applyAsioEntry")>>]

(* A call; what mayThrow stands for only reads, or writes the backup file.  *)
Expansion(f) ==
  CASE f = "installWithin" -> installWithin
    [] f = "uninstallWithin" -> uninstallWithin
    [] f = "fxProperties" -> fxProperties
    [] f = "removeAsioEntry" -> removeAsioEntry
    [] f = "applyAsioEntry" -> applyAsioEntry
    [] f = "mayThrow" -> <<>>

Wanted(i) ==
  CASE i.when = "always" -> TRUE
    [] i.when = "absent" -> ~HasValue(reg, i.op.key, i.op.name)
    [] i.when = "there" -> HasValue(reg, i.op.key, i.op.name)
    [] i.when = "exists" -> reg[i.op.key] # Gone
    [] i.when = "empty" -> reg[i.op.key] # Gone /\ keyEmpty(reg, i.op.key)

----------------------------------------------------------------------------
(* The program and Windows *)

Init ==
  /\ device \in Devices
  /\ reg = [k \in Key |-> IF k = "Fx" THEN device.driver ELSE Gone]
  /\ TxInit
  /\ info = Loaded(reg) /\ selected = info.current
  /\ session = "closed" /\ asked = "none" /\ todo = <<>>

Open ==
  /\ session = "closed"
  /\ session' = "open" /\ info' = Loaded(reg) /\ selected' = info'.current
  /\ asked' = "none"
  /\ UNCHANGED <<txVars, device, todo>>

Leave ==
  /\ session \in {"open", "testing"}
  /\ session' = "closed"
  /\ UNCHANGED <<txVars, device, info, selected, asked, todo>>

(* One operation per session; the device test goes from one reinstall to    *)
(* the next with what the load in the middle of the last one left.          *)
Ask(operation) ==
  /\ CASE operation = "install" -> session = "open" /\ ~info.installed
       [] operation = "uninstall" -> session = "open" /\ info.installed
       [] operation = "reinstall" -> session = "testing" \/ (session = "open" /\ info.installed)
  /\ Begin
  /\ selected' \in (IF operation = "uninstall" THEN {selected}
                     ELSE {s \in Selections : s.post => ~device.input})
  /\ session' = "busy" /\ asked' = operation /\ todo' = Operation[operation]
  /\ UNCHANGED <<device, info>>

Next1 == Head(todo)
Ready == status = "open" /\ looked = Idle /\ todo # <<>>

skip ==
  /\ Ready /\ Next1.when # "call" /\ ~Wanted(Next1)
  /\ todo' = Tail(todo)
  /\ UNCHANGED <<txVars, device, info, selected, session, asked>>

operate ==
  /\ Ready
  /\ \/ Next1.when # "call" /\ Wanted(Next1) /\ Look(Next1.op)
     \/ Next1 = Call("createFx") /\ Look(createKey("Fx").op)
  /\ UNCHANGED devVars

change ==
  /\ Change
  /\ todo' = Tail(todo)
  /\ UNCHANGED <<device, info, selected, session, asked>>

(* Only for FxProperties is a refusal caught, and the permissions widened.  *)
AfterRefusal ==
  IF Next1 = Call("createFx") THEN <<Call("widen"), createKey("Fx")>> \o Tail(todo) ELSE <<>>
refuse ==
  /\ Refuse(Next1 = Call("createFx"))
  /\ todo' = AfterRefusal
  /\ UNCHANGED <<device, info, selected, session, asked>>

widen ==
  /\ Ready /\ Next1 = Call("widen") /\ Widen
  /\ todo' = Tail(todo)
  /\ UNCHANGED <<device, info, selected, session, asked>>

enter ==
  /\ Ready /\ Next1.when = "call" /\ Next1.f \notin {"load", "createFx", "widen"}
  /\ todo' = Expansion(Next1.f) \o Tail(todo)
  /\ UNCHANGED <<txVars, device, info, selected, session, asked>>

(* load in the middle of a reinstall: its result is not looked at, and an   *)
(* endpoint that has just been unplugged for good leaves info as it was.    *)
reload ==
  /\ Ready /\ Next1 = Call("load")
  /\ info' \in {Loaded(reg), info}
  /\ todo' = Tail(todo)
  /\ UNCHANGED <<txVars, device, selected, session, asked>>

throw ==
  /\ Ready /\ Next1 \in {Call("mayThrow"), Call("load"), Call("widen")}
  /\ Throw
  /\ todo' = <<>>
  /\ UNCHANGED <<device, info, selected, session, asked>>

succeed ==
  /\ session = "busy" /\ todo = <<>>
  /\ commit
  /\ session' \in {"closed"} \cup (IF asked = "reinstall" THEN {"testing"} ELSE {})
  /\ UNCHANGED <<device, info, selected, asked, todo>>

rollback ==
  \/ undo /\ UNCHANGED devVars
  \/ /\ rollbackEnds
     /\ session' = "closed"
     /\ UNCHANGED <<device, info, selected, asked, todo>>

(* Windows 11 24H2 puts its own key below FxProperties.                     *)
windows ==
  /\ reg["Fx"] # Gone /\ reg["windows"] = Gone
  /\ Elsewhere([reg EXCEPT !["windows"] = Empty])
  /\ UNCHANGED devVars

Run ==
  \/ skip \/ operate \/ change \/ refuse \/ widen \/ enter \/ reload \/ throw
  \/ succeed \/ rollback

Next ==
  \/ Open \/ Leave \/ Run \/ windows
  \/ \E operation \in DOMAIN Operation : Ask(operation)

Spec == Init /\ [][Next]_vars

----------------------------------------------------------------------------
(* Properties *)

(* After an uninstall, and whenever nothing of ours is in a slot (a rolled  *)
(* back install, a reinstall that selects nothing), the driver's chain is   *)
(* what it was, whatever modes were installed in between (DeviceAPOInfo,    *)
(* installWithin and uninstallWithin; issue #189 for the key that stays).   *)
DriverGetsItsChainBack ==
  session = "closed" /\ (foundAt(reg) = {} \/ (asked = "uninstall" /\ status = "committed")) =>
    IF device.driver = Gone
    THEN reg["Fx"] # Gone => reg["windows"] # Gone /\ \A s \in allGuidValueNames : reg["Fx"][s] = None
    ELSE \A s \in allGuidValueNames : reg["Fx"][s] = device.driver[s]

(* What was installed is what the next start reads, except that SFX_EFX     *)
(* with nothing in EFX reads as SFX_MFX (installWithin against load).       *)
ReadsBack ==
  status = "committed" /\ session # "busy" /\ asked \in {"install", "reinstall"}
    /\ (selected.pre \/ selected.post) =>
    LET c == Loaded(reg).current
    IN  /\ Loaded(reg).installed
        /\ c.mode = selected.mode \/ (selected.mode = "SFX_EFX" /\ ~selected.post)
        /\ <<c.pre, c.post, c.adjust, c.exclusive>>
             = <<selected.pre, selected.post, selected.adjust, selected.exclusive>>
        /\ (c.usePre => selected.usePre) /\ (c.usePost => selected.usePost)

(* An uninstall takes everything with it that installing had written        *)
(* (DeviceAPOInfoKeys.h: "makes ownership symmetric").                      *)
OwnValuesGone ==
  status = "committed" /\ session # "busy" /\ asked = "uninstall" /\ reg["Fx"] # Gone =>
    \A n \in allGuidValueNames \cup Lists \cup {"fxTitle"} :
      reg["Fx"][n] = IF device.driver = Gone THEN None ELSE device.driver[n]
=============================================================================
