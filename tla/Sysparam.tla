------------------------------ MODULE Sysparam ------------------------------
(***************************************************************************)
(* The parameter store of core/sysparam.c: key/value pairs kept as a log   *)
(* of entries in one of two flash regions, with compaction into the other  *)
(* region, recovery at boot (sysparam_init, called by core/app_main.c) and *)
(* re-creation of the area (sysparam_create_area).                         *)
(*                                                                         *)
(* Every step that writes or erases flash is an action, so a power cut     *)
(* (power_cut) can separate any two of them.  The mutex of                  *)
(* sysparam_set_data makes one set call run at a time: `pc' is where that  *)
(* call, the boot code or the re-creation of the area stands.              *)
(***************************************************************************)
EXTENDS Integers, Sequences, FiniteSets, FiniteSetsExt

CONSTANTS
  Key,        \* parameter names
  Val,        \* parameter values (payload and binary flag together)
  None,       \* no value: what reading an absent key gives, and what a set
              \* call with value_len = 0 (a deletion) asks for
  ValSize,    \* size of a value entry, header included
  KeySize,    \* size of a key entry, header included
  HdrSize,    \* ENTRY_HEADER_SIZE
  Cap,        \* room for entries in one region
  MaxKeyId,   \* MAX_KEY_ID
  Calls,      \* API calls made besides setting a value: a subset of CallKinds
  Faults,     \* failures that may occur: a subset of FaultKinds
  MaxFaults   \* bound on the number of failures

CallKinds == {"delete", "reformat"}
FaultKinds == {"crash", "entry", "region"}

ASSUME ConstantsAssumption ==
  /\ None \notin Key \cup Val
  /\ ValSize \in [Val -> Nat]
  /\ KeySize \in Nat /\ HdrSize \in Nat /\ Cap \in Nat /\ MaxKeyId \in Nat
  /\ \A v \in Val : HdrSize < ValSize[v]
  /\ HdrSize < KeySize
  /\ Calls \subseteq CallKinds
  /\ Faults \subseteq FaultKinds
  /\ MaxFaults \in Nat

VARIABLES
  hdr,      \* flash: region headers
  log,      \* flash: the entries of each region
  cur,      \* _sysparam_info.cur_base, as the number of the region
  end,      \* _sysparam_info.end_addr, as the number of entries before it
  force,    \* _sysparam_info.force_compact
  pc,       \* where the running call stands
  key,      \* sysparam_set_data: the key being set
  val,      \* sysparam_set_data: its new value, None for a deletion
  kid,      \* sysparam_set_data: key_id, 0 standing for -1
  old,      \* sysparam_set_data: old_value_addr, as an entry number, 0 for none
  why,      \* which branch of sysparam_set_data asked for the compaction, or
            \* which caller asked for a new area
  it,       \* _compact_params: the entry iter.ctx stands on
  n,        \* ctx.max_key_id, current_key_id while compacting
  status,   \* what the last call returned
  allowed,  \* history: the values reading a key may give
  stray,    \* history: a value was written for a key with no key entry
  faults,   \* number of failures so far
  damaged   \* history: a forced re-creation of the area was cut short, or an
            \* operation on a whole region failed

flashVars == <<hdr, log>>
ramVars == <<cur, end, force>>
callVars == <<key, val, kid, old, why, it, n>>
ghostVars == <<allowed, stray, damaged, faults>>
vars == <<hdr, log, cur, end, force, pc, key, val, kid, old, why, it, n,
          status, allowed, stray, damaged, faults>>

-----------------------------------------------------------------------------
(* Flash contents.  An entry is "writing" while its header says            *)
(* ALIVE | INVALID, "alive" once INVALID is cleared, "dead" once ALIVE is  *)
(* cleared.  A "zero" entry is a header zeroed after a failed write.  A    *)
(* "garbage" entry is a header that was written in part, could not be      *)
(* zeroed, and gives an impossible length.  It stands at end_addr, and so  *)
(* may a "writing" header that could not be verified nor zeroed.           *)

Region == {0, 1}
Other(r) == 1 - r

(* A header is blank ("none"), zeroed after a failed write ("zero"), or    *)
(* carries the magic number and the ACTIVE flag.                           *)
Header == {"none", "zero", "active", "stale"}
Entry == [kind : {"key", "value", "zero", "garbage"}, id : Nat,
          data : Key \cup Val \cup {None}, st : {"writing", "alive", "dead"}]

KeyEntry(i, k, s) == [kind |-> "key", id |-> i, data |-> k, st |-> s]
ValueEntry(i, v, s) == [kind |-> "value", id |-> i, data |-> v, st |-> s]
Junk(kind) == [kind |-> kind, id |-> 0, data |-> None, st |-> "dead"]

ENTRY_SIZE(e) ==
  CASE e.kind = "key"     -> KeySize
    [] e.kind = "value"   -> ValSize[e.data]
    [] e.kind = "zero"    -> HdrSize
    [] e.kind = "garbage" -> Cap + 1

IsKey(e) == e.kind = "key" /\ e.st = "alive"
IsValue(e) == e.kind = "value" /\ e.st = "alive"
IsGarbage(e) == e.kind = "garbage"
HasGarbage(L) == \E i \in DOMAIN L : IsGarbage(L[i])
Keys(L) == {i \in DOMAIN L : IsKey(L[i])}
Values(L) == {i \in DOMAIN L : IsValue(L[i])}

First(S) == IF S = {} THEN 0 ELSE Min(S)

(* What _find_key, _find_value, sysparam_get_data and the counters of       *)
(* _find_entry find in the entries L of a region.                          *)
find_key(L, k) == First({i \in Keys(L) : L[i].data = k})
find_value(L, i) ==
  IF i = 0 THEN 0
  ELSE First({j \in Values(L) : j > i /\ L[j].id = L[i].id})
get_data(L, k) ==
  LET v == find_value(L, find_key(L, k)) IN IF v = 0 THEN None ELSE L[v].data

SumSizes(L, S) ==
  LET sum[i \in 0 .. Len(L)] ==
        IF i = 0 THEN 0
        ELSE sum[i - 1] + (IF i \in S THEN ENTRY_SIZE(L[i]) ELSE 0)
  IN  sum[Len(L)]
Used(L) == SumSizes(L, DOMAIN L)
compactable(L, o) ==
  SumSizes(L, {i \in DOMAIN L : L[i].st # "alive" \/ i = o})
unused_keys(L) == Cardinality(Keys(L)) - Cardinality(Values(L))
max_key_id(L) == IF Keys(L) = {} THEN 0 ELSE L[Max(Keys(L))].id

(* Mutant: the last entry is always taken for a garbage header.            *)
EndOf_drops_last(L) == Len(L) - 1

(* Where _find_entry stops: at unwritten flash or at a garbage header.     *)
EndOf(L) == IF HasGarbage(L) THEN Len(L) - 1 ELSE Len(L)

-----------------------------------------------------------------------------
(* The state after power-on: blank flash, nothing mounted.                 *)

PcBoot == {"off", "recreate", "fmt0", "fmt1", "fmtHdr0", "fmtHdr1", "failed"}
PcSet == {"erase", "copy", "hdrOld", "keyHdr", "keyOk", "valHdr", "valOk", "del"}
PcMounted == PcSet \cup {"idle"}

Init ==
  /\ hdr = [r \in Region |-> "none"]
  /\ log = [r \in Region |-> <<>>]
  /\ cur = 0 /\ end = 0 /\ force = FALSE
  /\ pc = "off"
  /\ key = None /\ val = None /\ kid = 0 /\ old = 0 /\ why = "none"
  /\ it = 0 /\ n = 0
  /\ status = "OK"
  /\ allowed = [k \in Key |-> {None}]
  /\ stray = FALSE /\ damaged = FALSE /\ faults = 0

NoCall ==
  /\ key' = None /\ val' = None /\ kid' = 0 /\ old' = 0 /\ why' = "none"
  /\ it' = 0 /\ n' = 0

-----------------------------------------------------------------------------
(* sysparam_init, called by app_main at boot and after a re-creation.      *)

Missing(r) == hdr[r] \in {"none", "zero"}
Blank(r) == hdr[r] = "none" /\ log[r] = <<>>

mount(r) ==
  /\ cur' = r
  /\ end' = EndOf(log[r])
  /\ force' = HasGarbage(log[r])
  /\ pc' = "idle" /\ status' = "OK"
  /\ NoCall

init_both ==
  /\ pc = "off"
  /\ \A r \in Region : ~Missing(r)
  /\ mount(IF hdr[0] = "active" THEN 0 ELSE 1)
  /\ UNCHANGED <<flashVars, ghostVars>>

(* One header is missing and the other says active: erase the missing      *)
(* region, then give it a stale header.                                    *)
init_recreate ==
  /\ pc = "off"
  /\ \E r \in Region :
       /\ hdr[r] = "active" /\ Missing(Other(r))
       /\ hdr' = [hdr EXCEPT ![Other(r)] = "none"]
       /\ log' = [log EXCEPT ![Other(r)] = <<>>]
  /\ pc' = "recreate"
  /\ UNCHANGED <<ramVars, callVars, status, ghostVars>>

init_recreate_header ==
  /\ pc = "recreate"
  /\ \E r \in Region :
       /\ hdr[r] = "active" /\ Missing(Other(r))
       /\ hdr' = [hdr EXCEPT ![Other(r)] = "stale"]
       /\ mount(r)
  /\ UNCHANGED <<log, ghostVars>>

(* Only a stale header: ERR_CORRUPT.  No header, but the area is not empty: *)
(* sysparam_create_area refuses it.  Either way nothing is mounted.        *)
init_fails ==
  /\ pc = "off"
  /\ \/ /\ \E r \in Region : hdr[r] = "stale" /\ Missing(Other(r))
        /\ status' = "CORRUPT"
     \/ /\ \A r \in Region : Missing(r)
        /\ \E r \in Region : ~Blank(r)
        /\ status' = "NOTFOUND"
  /\ pc' = "failed"
  /\ UNCHANGED <<flashVars, ramVars, callVars, ghostVars>>

init_notfound ==
  /\ pc = "off"
  /\ \A r \in Region : Blank(r)
  /\ pc' = "fmt0" /\ why' = "create"
  /\ UNCHANGED <<flashVars, ramVars, key, val, kid, old, it, n, status, ghostVars>>

-----------------------------------------------------------------------------
(* sysparam_create_area: erase both regions, write the active header, then *)
(* the stale one; its caller then mounts the area.                         *)

reformat ==
  /\ pc = "idle" /\ "reformat" \in Calls
  /\ cur' = 0 /\ end' = 0 /\ force' = FALSE
  /\ pc' = "fmt0" /\ why' = "reformat"
  /\ allowed' = [k \in Key |-> allowed[k] \cup {None}]
  /\ UNCHANGED <<flashVars, key, val, kid, old, it, n, status, stray, damaged, faults>>

create_erase(r, at, next) ==
  /\ pc = at
  /\ hdr' = [hdr EXCEPT ![r] = "none"]
  /\ log' = [log EXCEPT ![r] = <<>>]
  /\ pc' = next
  /\ UNCHANGED <<ramVars, callVars, status, ghostVars>>

create_header0 ==
  /\ pc = "fmtHdr0"
  /\ hdr' = [hdr EXCEPT ![0] = "active"]
  /\ pc' = "fmtHdr1"
  /\ UNCHANGED <<log, ramVars, callVars, status, ghostVars>>

create_header1 ==
  /\ pc = "fmtHdr1"
  /\ hdr' = [hdr EXCEPT ![1] = "stale"]
  /\ pc' = "off" /\ status' = "OK"
  /\ allowed' = IF why = "reformat" THEN [k \in Key |-> {None}] ELSE allowed
  /\ NoCall
  /\ UNCHANGED <<log, ramVars, stray, damaged, faults>>

-----------------------------------------------------------------------------
(* sysparam_set_data up to its first flash write.                          *)

Cur == log[cur]
KeyAt(k) == find_key(Cur, k)
OldAt(k) == find_value(Cur, KeyAt(k))
KeyId(k) == IF KeyAt(k) = 0 THEN 0 ELSE Cur[KeyAt(k)].id

(* Mutant: the key entry is forgotten.                                     *)
needed_space_no_key(id, v) == ValSize[v]

(* Mutant: the id after the last one is handed out.                        *)
OutOfIds_late(k) == KeyAt(k) = 0 /\ max_key_id(Cur) > MaxKeyId

free_space == Cap - Used(SubSeq(Cur, 1, end))
needed_space(id, v) == ValSize[v] + (IF id = 0 THEN KeySize ELSE 0)
NoRoom(k, v) == v # None /\ needed_space(KeyId(k), v) > free_space
OutOfIds(k) == KeyAt(k) = 0 /\ max_key_id(Cur) >= MaxKeyId

(* force_compact after the scans of this call: they set it when they reach *)
(* a garbage header, or step past the end of a full region.                *)
ForceAfterScan(k, v) ==
  \/ force
  \/ HasGarbage(Cur) /\ (OldAt(k) = 0 \/ NoRoom(k, v))
  \/ OldAt(k) = 0 /\ NoRoom(k, v) /\ Cap - Used(Cur) < HdrSize

(* Which branch compacts first, "full" when the call gives up, "none" when *)
(* the new entries are appended right away.                                *)
Branch(k, v) ==
  CASE NoRoom(k, v) ->
         IF \/ needed_space(KeyId(k), v) <=
                 free_space + compactable(Cur, OldAt(k))
            \/ unused_keys(Cur) > 0
         THEN "space" ELSE "full"
    [] ~NoRoom(k, v) /\ OutOfIds(k) ->
         IF unused_keys(Cur) > 0 THEN "ids" ELSE "full"
    [] OTHER -> IF ForceAfterScan(k, v) THEN "force" ELSE "none"

(* History: the values a key may be read as once a set call has succeeded, *)
(* and once one has failed or was cut short.  After a call that did not    *)
(* finish, two values may be alive in the log and later calls only add to  *)
(* what may be read.  A compaction leaves out the value of the key being   *)
(* set, so None may be read if the call ends before the new one is stored. *)
Finished(k, v) ==
  IF \A x \in allowed[k] : allowed[k] = {x} THEN {v} ELSE allowed[k] \cup {v}
Dropped == why # "none" /\ pc \notin {"erase", "copy"}
Unfinished == allowed[key] \cup {val} \cup (IF Dropped THEN {None} ELSE {})

Same(k, v) == OldAt(k) # 0 /\ Cur[OldAt(k)].data = v

set_nothing_to_do(k, v) ==
  /\ pc = "idle"
  /\ \/ /\ v = None /\ OldAt(k) = 0
        /\ status' = "NOTFOUND"
     \/ /\ v # None /\ Same(k, v)
        /\ status' = "OK"
  /\ allowed' = [allowed EXCEPT ![k] = Finished(k, v)]
  /\ force' = ForceAfterScan(k, None)
  /\ UNCHANGED <<flashVars, cur, end, pc, callVars, stray, damaged, faults>>

set_delete(k) ==
  /\ pc = "idle" /\ OldAt(k) # 0
  /\ pc' = "del"
  /\ key' = k /\ val' = None /\ kid' = KeyId(k) /\ old' = OldAt(k)
  /\ UNCHANGED <<flashVars, ramVars, why, it, n, status, ghostVars>>

set_full(k, v) ==
  /\ pc = "idle" /\ ~Same(k, v)
  /\ Branch(k, v) = "full"
  /\ force' = ForceAfterScan(k, v)
  /\ status' = "FULL"
  /\ UNCHANGED <<flashVars, cur, end, pc, callVars, ghostVars>>

set_compact(k, v) ==
  /\ pc = "idle" /\ ~Same(k, v)
  /\ Branch(k, v) \in {"space", "ids", "force"}
  /\ why' = Branch(k, v)
  /\ pc' = "erase"
  /\ key' = k /\ val' = v /\ kid' = KeyId(k) /\ old' = OldAt(k)
  /\ force' = ForceAfterScan(k, v)
  /\ UNCHANGED <<flashVars, cur, end, it, n, status, ghostVars>>

set_append(k, v) ==
  /\ pc = "idle" /\ ~Same(k, v)
  /\ Branch(k, v) = "none"
  /\ pc' = IF KeyAt(k) = 0 THEN "keyHdr" ELSE "valHdr"
  /\ key' = k /\ val' = v /\ kid' = KeyId(k) /\ old' = OldAt(k)
  /\ n' = max_key_id(Cur)
  /\ UNCHANGED <<flashVars, ramVars, why, it, status, ghostVars>>

(* Every call but create_area is refused while no area is mounted.         *)
call_noinit ==
  /\ pc = "failed"
  /\ status' = "NOINIT"
  /\ UNCHANGED <<flashVars, ramVars, pc, callVars, ghostVars>>

(* sysparam_get_data and its callers: reading changes only force_compact.  *)
get(k) ==
  /\ pc = "idle"
  /\ force' = ForceAfterScan(k, None)
  /\ UNCHANGED <<flashVars, cur, end, pc, callVars, status, ghostVars>>

-----------------------------------------------------------------------------
(* How a set call ends.                                                    *)

Succeed ==
  /\ pc' = "idle" /\ status' = "OK"
  /\ allowed' = [allowed EXCEPT ![key] = Finished(key, val)]
  /\ NoCall

Fail(s) ==
  /\ pc' = "idle" /\ status' = s
  /\ allowed' = [allowed EXCEPT ![key] = Unfinished]
  /\ NoCall

-----------------------------------------------------------------------------
(* _compact_params: erase the other region, copy into it every key that    *)
(* has a value, then switch headers.                                       *)

Alt == Other(cur)

compact_erase ==
  /\ pc = "erase"
  /\ hdr' = [hdr EXCEPT ![Alt] = "none"]
  /\ log' = [log EXCEPT ![Alt] = <<>>]
  /\ pc' = "copy" /\ it' = 0 /\ n' = 0
  /\ UNCHANGED <<ramVars, key, val, kid, old, why, status, ghostVars>>

(* The keys sysparam_iter_next has still to return: those with a value.    *)
ToCopy == {j \in Keys(Cur) : j > it /\ find_value(Cur, j) # 0}

(* Mutant: key_id is compared with the new id of the key, not its old one. *)
compact_copy_new_id ==
  /\ pc = "copy"
  /\ \E j \in ToCopy :
       /\ \A i \in ToCopy : j <= i
       /\ LET k == KeyEntry(n + 1, Cur[j].data, "alive")
              v == ValueEntry(n + 1, Cur[find_value(Cur, j)].data, "alive")
          IN  log' = [log EXCEPT ![Alt] =
                        IF n + 1 = kid THEN Append(@, k)
                        ELSE Append(Append(@, k), v)]
       /\ it' = j
  /\ n' = n + 1
  /\ UNCHANGED <<hdr, ramVars, pc, key, val, kid, old, why, status, ghostVars>>

(* One round of the copying loop.  The value of the key being set is left  *)
(* out, and key_id takes the number that key gets in the new region.       *)
compact_copy ==
  /\ pc = "copy"
  /\ \E j \in ToCopy :
       /\ \A i \in ToCopy : j <= i
       /\ LET k == KeyEntry(n + 1, Cur[j].data, "alive")
              v == ValueEntry(n + 1, Cur[find_value(Cur, j)].data, "alive")
          IN  log' = [log EXCEPT ![Alt] =
                        IF Cur[j].id = kid THEN Append(@, k)
                        ELSE Append(Append(@, k), v)]
       /\ kid' = IF Cur[j].id = kid THEN n + 1 ELSE kid
       /\ it' = j
  /\ n' = n + 1
  /\ UNCHANGED <<hdr, ramVars, pc, key, val, old, why, status, ghostVars>>

(* Mutant: the old region is made stale before the new one is active.      *)
compact_header_new_late ==
  /\ pc = "copy" /\ ToCopy = {}
  /\ hdr' = [hdr EXCEPT ![cur] = "stale"]
  /\ pc' = "hdrOld"
  /\ UNCHANGED <<log, ramVars, callVars, status, ghostVars>>

compact_header_new ==
  /\ pc = "copy" /\ ToCopy = {}
  /\ hdr' = [hdr EXCEPT ![Alt] = "active"]
  /\ pc' = "hdrOld"
  /\ UNCHANGED <<log, ramVars, callVars, status, ghostVars>>

(* Mutant: if there is still no room the compaction is tried again.        *)
compact_header_old_again ==
  /\ pc = "hdrOld"
  /\ hdr' = [hdr EXCEPT ![cur] = "stale"]
  /\ cur' = Alt /\ end' = Len(log[Alt]) /\ force' = FALSE
  /\ pc' = IF /\ why = "space"
              /\ \/ needed_space(kid, val) > Cap - Used(log[Alt])
                 \/ kid = 0 /\ n >= MaxKeyId
           THEN "erase" ELSE IF kid = 0 THEN "keyHdr" ELSE "valHdr"
  /\ old' = 0 /\ it' = 0
  /\ UNCHANGED <<log, key, val, kid, why, n, status, ghostVars>>

(* The old region becomes stale and the new one current.  After a          *)
(* compaction made for space sysparam_set_data checks again for room and   *)
(* for a free id; only the forced one keeps the address of the old value.  *)
compact_header_old ==
  /\ pc = "hdrOld"
  /\ hdr' = [hdr EXCEPT ![cur] = "stale"]
  /\ cur' = Alt /\ end' = Len(log[Alt]) /\ force' = FALSE
  /\ IF /\ why = "space"
        /\ \/ needed_space(kid, val) > Cap - Used(log[Alt])
           \/ kid = 0 /\ n >= MaxKeyId
     THEN Fail("FULL")
     ELSE /\ pc' = IF kid = 0 THEN "keyHdr" ELSE "valHdr"
          /\ old' = IF why = "force" THEN old ELSE 0
          /\ it' = 0
          /\ UNCHANGED <<key, val, kid, why, n, status, allowed>>
  /\ UNCHANGED <<log, stray, damaged, faults>>

-----------------------------------------------------------------------------
(* _write_entry at the end of the current region: the header with INVALID  *)
(* set, which also moves end_addr; then the payload and the header with    *)
(* INVALID cleared.  Flash bits can only be cleared: over what an earlier  *)
(* failure left at end_addr the header may verify or not.                  *)

AtEnd(e) == [log EXCEPT ![cur] = Append(SubSeq(@, 1, end), e)]

write_header(e, next) ==
  /\ log' = AtEnd(e)
  /\ end' = end + 1
  /\ pc' = next

(* Mutant: the new key gets the id of the last one.                        *)
key_header_same_id ==
  /\ pc = "keyHdr"
  /\ kid' = n
  /\ write_header(KeyEntry(n, key, "writing"), "keyOk")
  /\ UNCHANGED <<hdr, cur, force, key, val, old, why, it, n, status, ghostVars>>

key_header ==
  /\ pc = "keyHdr"
  /\ kid' = n + 1
  /\ write_header(KeyEntry(n + 1, key, "writing"), "keyOk")
  /\ UNCHANGED <<hdr, cur, force, key, val, old, why, it, n, status, ghostVars>>

key_valid ==
  /\ pc = "keyOk"
  /\ log' = [log EXCEPT ![cur][end].st = "alive"]
  /\ pc' = "valHdr"
  /\ UNCHANGED <<hdr, ramVars, callVars, status, ghostVars>>

value_header ==
  /\ pc = "valHdr"
  /\ write_header(ValueEntry(kid, val, "writing"), "valOk")
  /\ stray' = (stray \/ KeyAt(key) = 0)
  /\ UNCHANGED <<hdr, cur, force, callVars, status, allowed, damaged, faults>>

(* Mutant: the old value is never deleted.                                 *)
value_valid_keeps_old ==
  /\ pc = "valOk"
  /\ log' = [log EXCEPT ![cur][end].st = "alive"]
  /\ Succeed
  /\ UNCHANGED <<hdr, ramVars, stray, damaged, faults>>

value_valid ==
  /\ pc = "valOk"
  /\ log' = [log EXCEPT ![cur][end].st = "alive"]
  /\ IF old = 0 THEN Succeed
     ELSE pc' = "del" /\ UNCHANGED <<callVars, status, allowed>>
  /\ UNCHANGED <<hdr, ramVars, stray, damaged, faults>>

NewHeader == IF pc = "keyHdr" THEN KeyEntry(n + 1, key, "writing")
             ELSE ValueEntry(kid, val, "writing")

(* A header written over another one left at end_addr does not verify: it  *)
(* is zeroed and skipped.                                                  *)
write_over_left ==
  /\ pc \in {"keyHdr", "valHdr"}
  /\ Len(Cur) > end /\ Cur[end + 1] # NewHeader
  /\ log' = AtEnd(Junk("zero"))
  /\ end' = end + 1
  /\ Fail("IO")
  /\ UNCHANGED <<hdr, cur, force, stray, damaged, faults>>

(* _delete_entry.  After a forced compaction old_value_addr still points   *)
(* into the region that has just become stale.                             *)
OldRegion == IF why = "force" THEN Alt ELSE cur

delete_old ==
  /\ pc = "del"
  /\ log' = [log EXCEPT ![OldRegion][old].st = "dead"]
  /\ Succeed
  /\ UNCHANGED <<hdr, ramVars, stray, damaged, faults>>

-----------------------------------------------------------------------------
(* A failure of the given kind happens.                                    *)
Failure(kind) == kind \in Faults /\ faults < MaxFaults /\ faults' = faults + 1

(* Failing flash operations.  A failed entry header is zeroed and skipped; *)
(* if zeroing fails too, garbage or the whole header stays at end_addr; a  *)
(* failed malloc writes nothing.                                           *)

entry_header_fails ==
  /\ pc \in {"keyHdr", "valHdr"} /\ Failure("entry")
  /\ \/ log' = AtEnd(Junk("zero")) /\ end' = end + 1
     \/ Len(Cur) = end /\ log' = AtEnd(Junk("garbage")) /\ end' = end
     \/ log' = AtEnd(NewHeader) /\ end' = end
     \/ UNCHANGED <<log, end>>
  /\ Fail("IO")
  /\ UNCHANGED <<hdr, cur, force, stray, damaged>>

(* The payload or the clearing of INVALID fails: the entry stays invalid,  *)
(* or the flag was cleared after all.                                      *)
entry_valid_fails ==
  /\ pc \in {"keyOk", "valOk"} /\ Failure("entry")
  /\ \/ UNCHANGED log
     \/ log' = [log EXCEPT ![cur][end].st = "alive"]
  /\ Fail("IO")
  /\ UNCHANGED <<hdr, ramVars, stray, damaged>>

(* The write that clears ALIVE reports an error, done or not.              *)
delete_fails ==
  /\ pc = "del" /\ Failure("entry")
  /\ \/ UNCHANGED log
     \/ log' = [log EXCEPT ![OldRegion][old].st = "dead"]
  /\ Fail("IO")
  /\ UNCHANGED <<hdr, ramVars, stray, damaged>>

(* An erase or a copied entry fails: the half-written region has no header. *)
(* The iterator may have met a garbage header by then.                     *)
compact_fails ==
  /\ pc \in {"erase", "copy"} /\ Failure("entry")
  /\ hdr' \in {hdr, [hdr EXCEPT ![Alt] = "none"]}
  /\ force' \in {force, force \/ (pc = "copy" /\ HasGarbage(Cur))}
  /\ Fail("IO")
  /\ UNCHANGED <<log, cur, end, stray, damaged>>

(* A header _write_region_header could not verify is zeroed; if that fails *)
(* as well, the flash has the old contents or, after all, the new header h. *)
header_unverified(r, h) == hdr' \in {[hdr EXCEPT ![r] = x] : x \in {"zero", hdr[r], h}}

(* The compaction could not switch the headers: the call ends, the region  *)
(* in use stays the one it was.                                            *)
compact_header_fails ==
  /\ Failure("region")
  /\ \/ pc = "copy" /\ ToCopy = {} /\ header_unverified(Alt, "active")
     \/ pc = "hdrOld" /\ header_unverified(cur, "stale")
  /\ Fail("IO")
  /\ damaged' = TRUE
  /\ UNCHANGED <<log, ramVars, stray>>

(* sysparam_init or sysparam_create_area could not erase a region (its     *)
(* first sector, the one with the header, may be blank already) or could   *)
(* not write a header: no area is mounted.                                 *)
area_fails ==
  /\ Failure("region")
  /\ \/ pc = "fmt0" /\ hdr' \in {hdr, [hdr EXCEPT ![0] = "none"]}
     \/ pc = "fmt1" /\ hdr' \in {hdr, [hdr EXCEPT ![1] = "none"]}
     \/ pc = "fmtHdr0" /\ header_unverified(0, "active")
     \/ pc = "fmtHdr1" /\ header_unverified(1, "stale")
     \/ pc = "off"
        /\ \E r \in Region :
             /\ hdr[r] = "active" /\ Missing(Other(r))
             /\ hdr' \in {hdr, [hdr EXCEPT ![Other(r)] = "none"]}
     \/ pc = "recreate"
        /\ \E r \in Region : Missing(r) /\ header_unverified(r, "stale")
  /\ pc' = "failed" /\ status' = "IO"
  /\ NoCall
  /\ damaged' = TRUE
  /\ UNCHANGED <<log, ramVars, allowed, stray>>

(* The power fails: flash and history stay, everything in RAM is lost.     *)
power_cut ==
  /\ Failure("crash") /\ pc # "off"
  /\ pc' = "off"
  /\ cur' = 0 /\ end' = 0 /\ force' = FALSE
  /\ allowed' = IF pc \in PcSet
                THEN [allowed EXCEPT ![key] = Unfinished] ELSE allowed
  /\ damaged' = (damaged \/ why = "reformat")
  /\ NoCall
  /\ UNCHANGED <<flashVars, status, stray>>

-----------------------------------------------------------------------------
sysparam_init ==
  \/ init_both \/ init_recreate \/ init_recreate_header
  \/ init_fails \/ init_notfound

sysparam_create_area ==
  \/ create_erase(0, "fmt0", "fmt1") \/ create_erase(1, "fmt1", "fmtHdr0")
  \/ create_header0 \/ create_header1

compact_params ==
  \/ compact_erase \/ compact_copy \/ compact_header_new \/ compact_header_old

set_writes ==
  \/ key_header \/ key_valid \/ value_header \/ value_valid
  \/ write_over_left \/ delete_old

(* What a call in progress does next, when nothing fails.                  *)
Step == sysparam_init \/ sysparam_create_area \/ compact_params \/ set_writes

Call ==
  \/ reformat
  \/ call_noinit
  \/ \E k \in Key :
       \/ get(k)
       \/ "delete" \in Calls /\ (set_nothing_to_do(k, None) \/ set_delete(k))
       \/ \E v \in Val :
            \/ set_nothing_to_do(k, v) \/ set_full(k, v)
            \/ set_compact(k, v) \/ set_append(k, v)

Fault ==
  \/ entry_header_fails \/ entry_valid_fails \/ delete_fails
  \/ compact_fails \/ compact_header_fails \/ area_fails \/ power_cut

Next == Step \/ Call \/ Fault

Spec == Init /\ [][Next]_vars

(* The task that made a call keeps running: FreeRTOS schedules it again.   *)
FairSpec == Spec /\ WF_vars(Step)

-----------------------------------------------------------------------------
(* Properties.                                                             *)

(* Every variable keeps to its type; the type of a C variable of           *)
(* sysparam.c is the set of values the code can give it.                   *)
TypeOK ==
  /\ hdr \in [Region -> Header]
  /\ log \in [Region -> Seq(Entry)]
  /\ cur \in Region /\ end \in Nat /\ force \in BOOLEAN
  /\ pc \in PcBoot \cup PcMounted
  /\ key \in Key \cup {None} /\ val \in Val \cup {None}
  /\ kid \in Nat /\ old \in Nat /\ it \in Nat /\ n \in Nat
  /\ why \in {"none", "space", "ids", "force", "create", "reformat"}
  /\ status \in {"OK", "NOTFOUND", "FULL", "IO", "CORRUPT", "NOINIT"}
  /\ allowed \in [Key -> SUBSET (Val \cup {None})]
  /\ stray \in BOOLEAN /\ damaged \in BOOLEAN /\ faults \in Nat

(* However a set call, a compaction or a boot is cut short, sysparam_init  *)
(* mounts the area at the next boot.  Only a forced re-creation cut short  *)
(* or a failing erase or region header may leave it unmountable.           *)
Mountable == pc = "failed" => damaged

(* Along the current region the valid key entries have strictly increasing *)
(* ids and different names: _find_value can find at most one key's values, *)
(* and comparing an id with *key_id in _compact_params finds one key only. *)
KeysOrdered ==
  pc \in PcMounted =>
    \A i, j \in Keys(Cur) :
      i < j => Cur[i].id < Cur[j].id /\ Cur[i].data # Cur[j].data

(* The id checks before a key entry is written keep every id in range.     *)
IdsInRange == pc \in PcMounted => \A i \in Keys(Cur) : Cur[i].id \in 1 .. MaxKeyId

(* The free-space arithmetic of sysparam_set_data never lets the log, or   *)
(* the region a compaction is filling, grow past the end of its region.    *)
FitsRegion ==
  /\ pc \in PcMounted => free_space >= 0
  /\ pc \in {"copy", "hdrOld"} => Used(log[Alt]) <= Cap

(* Reading a key between calls gives the last value stored, whatever       *)
(* compactions, failures and power cuts other keys' calls met; if a call   *)
(* for this key did not finish, a value some call stored for this key      *)
(* since.                                                                  *)
ReadBack ==
  pc = "idle" /\ ~stray /\ ~damaged =>
    \A k \in Key : get_data(Cur, k) \in allowed[k]

(* No step of a set call, the switch to a compacted region included,       *)
(* changes what any other key reads as.                                    *)
OthersUntouched ==
  [][(pc \in PcSet /\ pc' \in PcMounted /\ ~stray') =>
        (\A k \in Key \ {key} : get_data(Cur', k) = get_data(Cur, k))]_vars

(* A set call or a boot in progress comes to its end.                      *)
EveryCallReturns == []<>(pc \in {"idle", "failed"})

(* sysparam.h: SYSPARAM_OK from sysparam_set_data means the value is set.  *)
OkMeansSet ==
  [][(pc \in PcSet /\ pc' = "idle" /\ status' = "OK") =>
        get_data(Cur', key) = val]_vars
=============================================================================
