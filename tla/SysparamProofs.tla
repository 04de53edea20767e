--------------------------- MODULE SysparamProofs ---------------------------
(***************************************************************************)
(* Theorems about Sysparam for any keys, values, sizes and bounds.         *)
(***************************************************************************)
EXTENDS Sysparam, TLAPS, SequenceTheorems, WellFoundedInduction

-----------------------------------------------------------------------------
(* Facts about the helpers the model is built from.                        *)

(* Min, from which _find_entry's "first match" is built, is the least      *)
(* element of any non-empty set of naturals.                               *)
LEMMA MinIsLeast ==
  ASSUME NEW S \in SUBSET Nat, S # {}
  PROVE  Min(S) \in S /\ \A x \in S : Min(S) <= x
<1> DEFINE R == OpToRel(<, Nat)
<1>1. \A x, y \in Nat : x < y => <<x, y>> \in R
  BY DEF OpToRel
<1>2. PICK m \in S : \A x \in S : ~(<<x, m>> \in R)
  BY NatLessThanWellFounded, WFMin
<1> HIDE DEF R
<1>3. \A x \in S : ~(x < m)
  BY <1>1, <1>2, Zenon
<1>4. \A x \in S : m <= x
  BY ONLY <1>3, S \in SUBSET Nat, m \in S
<1> QED
  BY <1>4, Zenon DEF Min

(* Max is the greatest element of a non-empty set of entry numbers.        *)
LEMMA MaxIsGreatest ==
  ASSUME NEW m \in Nat, NEW S \in SUBSET (1 .. m), S # {}
  PROVE  Max(S) \in S /\ \A x \in S : x <= Max(S)
<1> DEFINE T == {m - x : x \in S}
<1>1. T \in SUBSET Nat /\ T # {}
  <2>1. \A x \in S : m - x \in Nat
    OBVIOUS
  <2> QED BY <2>1, Zenon
<1>2. Min(T) \in T /\ \A y \in T : Min(T) <= y
  <2> HIDE DEF T
  <2> QED BY <1>1, MinIsLeast
<1>3. PICK g \in S : Min(T) = m - g
  BY <1>2, Zenon
<1>4. ASSUME NEW x \in S PROVE x <= g
  <2>1. Min(T) <= m - x
    BY <1>2
  <2> HIDE DEF T
  <2> QED BY <2>1, <1>3
<1> QED
  BY <1>4, Zenon DEF Max

(* First finds the least member of a set of entry numbers, or 0.           *)
LEMMA FirstFinds ==
  ASSUME NEW m \in Nat, NEW S \in SUBSET (1 .. m)
  PROVE  /\ First(S) \in Nat
         /\ First(S) # 0 => First(S) \in S
         /\ First(S) = 0 => S = {}
         /\ \A x \in S : First(S) <= x
<1>1. CASE S = {}
  BY <1>1 DEF First
<1>2. CASE S # {}
  <2>1. S \in SUBSET Nat
    OBVIOUS
  <2>2. Min(S) \in S /\ \A x \in S : Min(S) <= x
    BY <2>1, <1>2, MinIsLeast
  <2>3. First(S) = Min(S)
    BY <1>2, Zenon DEF First
  <2>4. Min(S) \in 1 .. m
    BY <2>2, Zenon
  <2> QED BY <1>2, <2>2, <2>3, <2>4
<1> QED
  BY <1>1, <1>2

(* What _find_key finds: an entry of the region, a valid key of that name, *)
(* if there is one.                                                        *)
LEMMA FindKey ==
  ASSUME NEW L \in Seq(Entry), NEW k
  PROVE  /\ find_key(L, k) \in Nat
         /\ find_key(L, k) # 0 =>
              find_key(L, k) \in Keys(L) /\ L[find_key(L, k)].data = k
         /\ find_key(L, k) = 0 => \A i \in Keys(L) : L[i].data # k
<1> DEFINE S == {i \in Keys(L) : L[i].data = k}
<1>1. S \in SUBSET (1 .. Len(L)) /\ Len(L) \in Nat
  BY DEF Keys
<1> HIDE DEF S
<1>2. /\ First(S) \in Nat
      /\ First(S) # 0 => First(S) \in S
      /\ First(S) = 0 => S = {}
  BY <1>1, FirstFinds, Zenon
<1> QED
  BY <1>2 DEF find_key, S

(* What _find_value finds: a valid value after the key, with its id.       *)
LEMMA FindValue ==
  ASSUME NEW L \in Seq(Entry), NEW i
  PROVE  /\ find_value(L, i) \in Nat
         /\ find_value(L, i) # 0 =>
              find_value(L, i) \in Values(L) /\ L[find_value(L, i)].id = L[i].id
<1> DEFINE S == {j \in Values(L) : j > i /\ L[j].id = L[i].id}
<1>1. S \in SUBSET (1 .. Len(L)) /\ Len(L) \in Nat
  BY DEF Values
<1> HIDE DEF S
<1>2. /\ First(S) \in Nat
      /\ First(S) # 0 => First(S) \in S
  BY <1>1, FirstFinds, Zenon
<1> QED
  BY <1>2 DEF find_value, S

-----------------------------------------------------------------------------
(* The inductive invariants.                                               *)

(* Headers: while nothing irregular happened, an area that is not blank    *)
(* has an active region, and a mounted one is mounted on it.  Compaction   *)
(* needs the conjunct on "hdrOld": both regions are active for a moment.   *)
HeadersInv ==
  ~damaged =>
    /\ pc # "failed"
    /\ pc = "off" => \/ \A r \in Region : Blank(r)
                     \/ \E r \in Region : hdr[r] = "active"
    /\ pc = "recreate" => \E r \in Region : hdr[r] = "active"
    /\ pc \in {"fmt0", "fmt1", "fmtHdr0"} /\ why # "reformat" =>
         \A r \in Region : Blank(r)
    /\ pc = "fmtHdr1" => hdr[0] = "active"
    /\ pc \in PcMounted => hdr[cur] = "active"
    /\ pc = "hdrOld" => hdr[Alt] = "active"

(* end_addr: the entries before it are all in flash.  What is written at   *)
(* end_addr follows them, over what a failed write may have left there.    *)
EndInv == pc \in PcMounted => end <= Len(Cur)

(* The keys of a list of entries are in order.                             *)
Ordered(L) ==
  /\ \A i \in Keys(L) : L[i].id > 0
  /\ \A i, j \in Keys(L) : i < j => L[i].id < L[j].id /\ L[i].data # L[j].data

(* A key named k, with an id above m, may be added to L.                   *)
Addable(L, m, k) == \A i \in Keys(L) : L[i].id <= m /\ L[i].data # k

(* Keys: both regions are in order at all times.  A key about to be        *)
(* written has a new name and an id above all others; a compaction numbers *)
(* the keys it copies, whose names it has met at or before iter.           *)
KeysInv ==
  /\ \A r \in Region : Ordered(log[r])
  /\ pc \in {"erase", "copy", "hdrOld"} /\ kid = 0 =>
       \A i \in Keys(Cur) : Cur[i].data # key
  /\ pc \in {"copy", "hdrOld"} =>
       \A i \in Keys(log[Alt]) :
         /\ log[Alt][i].id <= n
         /\ \E j \in Keys(Cur) : j <= it /\ Cur[j].data = log[Alt][i].data
  /\ pc \in {"keyHdr", "keyOk"} => Addable(Cur, n, key)
  /\ pc = "keyOk" => /\ end = Len(Cur) /\ end > 0
                     /\ Cur[end] = KeyEntry(n + 1, key, "writing")
  /\ pc = "valOk" => /\ end = Len(Cur) /\ end > 0
                     /\ Cur[end].kind = "value"

-----------------------------------------------------------------------------
(* Changing flash keeps it a list of entries.                              *)

(* ctx.max_key_id is the greatest id in a region whose keys are in order.  *)
LEMMA MaxKeyIdIsGreatest ==
  ASSUME NEW L \in Seq(Entry)
  PROVE  /\ max_key_id(L) \in Nat
         /\ Ordered(L) => \A i \in Keys(L) : L[i].id <= max_key_id(L)
<1>1. Keys(L) \in SUBSET (1 .. Len(L)) /\ Len(L) \in Nat
  BY DEF Keys
<1>2. CASE Keys(L) = {}
  BY <1>2 DEF max_key_id
<1>3. CASE Keys(L) # {}
  <2>1. Max(Keys(L)) \in Keys(L) /\ \A i \in Keys(L) : i <= Max(Keys(L))
    BY <1>1, <1>3, MaxIsGreatest, Zenon
  <2>2. \A i \in Keys(L) : L[i] \in Entry /\ i \in Nat
    BY <1>1, ElementOfSeq
  <2>3. \A i \in Keys(L) : L[i].id \in Nat
    BY <2>2 DEF Entry
  <2> QED BY <1>3, <2>1, <2>2, <2>3 DEF max_key_id, Ordered
<1> QED
  BY <1>2, <1>3

(* Rewriting an entry of a list gives a list of entries of the same length. *)
LEMMA ChangedEntry ==
  ASSUME NEW L \in Seq(Entry), NEW i, NEW e \in Entry
  PROVE  /\ [L EXCEPT ![i] = e] \in Seq(Entry)
         /\ Len([L EXCEPT ![i] = e]) = Len(L)
<1>1. CASE i \in 1 .. Len(L)
  BY <1>1, ExceptSeq
<1>2. CASE i \notin 1 .. Len(L)
  <2>1. i \notin DOMAIN L
    BY <1>2
  <2>2. [L EXCEPT ![i] = e] = L
    BY <2>1
  <2> QED BY <2>2, Zenon
<1> QED
  BY <1>1, <1>2

(* So does rewriting the flags of an entry.                                *)
LEMMA ChangedFlags ==
  ASSUME NEW L \in Seq(Entry), NEW i, NEW s \in {"writing", "alive", "dead"}
  PROVE  /\ [L EXCEPT ![i].st = s] \in Seq(Entry)
         /\ Len([L EXCEPT ![i].st = s]) = Len(L)
<1>1. CASE i \in DOMAIN L
  <2>1. L[i] \in Entry
    BY <1>1, ElementOfSeq
  <2>2. [L[i] EXCEPT !.st = s] \in Entry
    BY <2>1 DEF Entry
  <2> QED BY <1>1, <2>2
<1>2. CASE i \notin DOMAIN L
  <2>1. [L EXCEPT ![i].st = s] = L
    BY <1>2
  <2> QED BY <2>1, Zenon
<1> QED
  BY <1>1, <1>2

-----------------------------------------------------------------------------
(* Type correctness.                                                       *)

(* The part of TypeOK about the running call.                              *)
CallTypeOK ==
  /\ pc \in PcBoot \cup PcMounted
  /\ key \in Key \cup {None} /\ val \in Val \cup {None}
  /\ kid \in Nat /\ old \in Nat /\ it \in Nat /\ n \in Nat
  /\ why \in {"none", "space", "ids", "force", "create", "reformat"}
  /\ status \in {"OK", "NOTFOUND", "FULL", "IO", "CORRUPT", "NOINIT"}
  /\ allowed \in [Key -> SUBSET (Val \cup {None})]

(* Changing what one key may read as keeps the history well typed.         *)
LEMMA AllowedType ==
  ASSUME TypeOK, NEW k,
         NEW S, k \in Key => S \in SUBSET (Val \cup {None})
  PROVE  [allowed EXCEPT ![k] = S] \in [Key -> SUBSET (Val \cup {None})]
  BY Zenon DEF TypeOK

(* Whatever a finished call leaves to be read is a value.                  *)
LEMMA FinishedType ==
  ASSUME TypeOK, NEW k \in Key, NEW v \in Val \cup {None}
  PROVE  Finished(k, v) \in SUBSET (Val \cup {None})
  BY DEF TypeOK, Finished

(* So is whatever an unfinished call leaves.                               *)
LEMMA UnfinishedType ==
  ASSUME TypeOK, key \in Key
  PROVE  Unfinished \in SUBSET (Val \cup {None})
  BY DEF TypeOK, Unfinished

(* A call that ends well leaves the call variables well typed.             *)
LEMMA SucceedType ==
  ASSUME TypeOK, Succeed
  PROVE  CallTypeOK'
<1>1. allowed' \in [Key -> SUBSET (Val \cup {None})]
  <2>1. val \in Val \cup {None}
    BY DEF TypeOK
  <2>2. key \in Key => Finished(key, val) \in SUBSET (Val \cup {None})
    BY <2>1, FinishedType
  <2> QED BY <2>2, AllowedType DEF Succeed
<1> QED
  BY <1>1 DEF Succeed, NoCall, CallTypeOK, PcMounted

(* So does a call that ends with an error.                                 *)
LEMMA FailType ==
  ASSUME TypeOK, NEW s \in {"FULL", "IO"}, Fail(s)
  PROVE  CallTypeOK'
<1>1. allowed' \in [Key -> SUBSET (Val \cup {None})]
  BY UnfinishedType, AllowedType DEF Fail
<1> QED
  BY <1>1 DEF Fail, NoCall, CallTypeOK, PcMounted

(* One region's entries, or one region's header, are replaced.             *)
LEMMA FlashType ==
  ASSUME TypeOK
  PROVE  /\ \A r \in Region, L \in Seq(Entry) :
              [log EXCEPT ![r] = L] \in [Region -> Seq(Entry)]
         /\ \A r \in Region, h \in Header :
              [hdr EXCEPT ![r] = h] \in [Region -> Header]
         /\ \A r \in Region, i \in Nat, s \in {"writing", "alive", "dead"} :
              [log EXCEPT ![r][i].st = s] \in [Region -> Seq(Entry)]
<1>1. \A r \in Region : log[r] \in Seq(Entry)
  BY DEF TypeOK
<1>2. \A r \in Region, i \in Nat, s \in {"writing", "alive", "dead"} :
        [log[r] EXCEPT ![i].st = s] \in Seq(Entry)
  BY <1>1, ChangedFlags, Zenon
<1> QED
  BY <1>2, Zenon DEF TypeOK

(* What sysparam_set_data learns from its scans is well typed.             *)
LEMMA ScanType ==
  ASSUME TypeOK, NEW k
  PROVE  /\ Cur \in Seq(Entry)
         /\ KeyAt(k) \in Nat /\ OldAt(k) \in Nat /\ KeyId(k) \in Nat
         /\ max_key_id(Cur) \in Nat
<1>1. Cur \in Seq(Entry)
  BY DEF TypeOK, Cur
<1>2. KeyAt(k) \in Nat /\ (KeyAt(k) # 0 => KeyAt(k) \in DOMAIN Cur)
  BY <1>1, FindKey DEF KeyAt, Keys
<1>3. KeyId(k) \in Nat
  <2>1. KeyAt(k) # 0 => Cur[KeyAt(k)] \in Entry
    BY <1>1, <1>2, ElementOfSeq
  <2> QED BY <2>1 DEF KeyId, Entry
<1>4. OldAt(k) \in Nat
  BY <1>1, FindValue DEF OldAt
<1> QED
  BY <1>1, <1>2, <1>3, <1>4, MaxKeyIdIsGreatest

(* The end of the entries that _find_entry finds is an entry number.       *)
LEMMA EndOfType ==
  ASSUME NEW L \in Seq(Entry)
  PROVE  EndOf(L) \in Nat /\ EndOf(L) <= Len(L)
<1>1. Len(L) \in Nat /\ DOMAIN L = 1 .. Len(L)
  OBVIOUS
<1>2. HasGarbage(L) => Len(L) > 0
  BY <1>1 DEF HasGarbage
<1> QED
  BY <1>1, <1>2 DEF EndOf

(* What is written at end_addr comes right after the entries before it.    *)
LEMMA Cutoff ==
  ASSUME NEW L \in Seq(Entry), NEW m \in Nat, m <= Len(L), NEW e \in Entry
  PROVE  /\ Append(SubSeq(L, 1, m), e) \in Seq(Entry)
         /\ Len(Append(SubSeq(L, 1, m), e)) = m + 1
         /\ Append(SubSeq(L, 1, m), e)[m + 1] = e
         /\ \A i \in 1 .. m : Append(SubSeq(L, 1, m), e)[i] = L[i]
<1> DEFINE A == SubSeq(L, 1, m)
<1>1. Len(L) \in Nat
  OBVIOUS
<1>2. \A i \in 1 .. m : L[i] \in Entry
  BY <1>1, ElementOfSeq
<1>3. A \in Seq(Entry) /\ Len(A) = m /\ \A i \in 1 .. m : A[i] = L[i]
  BY <1>1, <1>2, SubSeqProperties
<1> HIDE DEF A
<1>4. /\ Append(A, e) \in Seq(Entry) /\ Len(Append(A, e)) = m + 1
      /\ Append(A, e)[m + 1] = e
      /\ \A i \in 1 .. m : Append(A, e)[i] = A[i]
  BY <1>3
<1> QED
  BY <1>3, <1>4 DEF A

(* The entry that is being written is an entry.                            *)
LEMMA NewHeaderType ==
  ASSUME TypeOK
  PROVE  NewHeader \in Entry /\ ~IsKey(NewHeader)
  BY DEF TypeOK, NewHeader, KeyEntry, ValueEntry, Entry, IsKey

(* Writing at end_addr leaves flash a list of entries.                     *)
LEMMA AtEndType ==
  ASSUME TypeOK, end <= Len(Cur), NEW e \in Entry
  PROVE  AtEnd(e) \in [Region -> Seq(Entry)]
<1>1. cur \in Region /\ log[cur] \in Seq(Entry) /\ end \in Nat
  BY DEF TypeOK
<1>2. Append(SubSeq(log[cur], 1, end), e) \in Seq(Entry)
  BY <1>1, Cutoff DEF Cur
<1>3. AtEnd(e) = [log EXCEPT ![cur] = Append(SubSeq(log[cur], 1, end), e)]
  BY DEF AtEnd
<1> QED
  BY <1>1, <1>2, <1>3, FlashType

(* Every step of boot, re-creation, compaction, set call and failure keeps *)
(* the variables in their types.                                           *)
LEMMA TypeStep ==
  TypeOK /\ EndInv /\ [Next]_vars => TypeOK'
<1> SUFFICES ASSUME TypeOK, EndInv, [Next]_vars PROVE TypeOK'
  OBVIOUS
<1> USE ConstantsAssumption
<1>tip. pc \in {"keyHdr", "valHdr"} =>
          \A e \in Entry : AtEnd(e) \in [Region -> Seq(Entry)]
  BY AtEndType DEF EndInv, PcMounted, PcSet
<1>reg. 0 \in Region /\ 1 \in Region /\ cur \in Region /\ Alt \in Region
        /\ \A r \in Region : Other(r) \in Region
  BY DEF TypeOK, Region, Alt, Other
<1>log. \A r \in Region : log[r] \in Seq(Entry)
  BY DEF TypeOK
<1>end. \A r \in Region : EndOf(log[r]) \in Nat
  BY <1>log, EndOfType
<1>junk. Junk("zero") \in Entry /\ Junk("garbage") \in Entry
  BY DEF Junk, Entry
<1>nil. <<>> \in Seq(Entry)
  OBVIOUS
<1>fl. /\ \A r \in Region : [log EXCEPT ![r] = <<>>] \in [Region -> Seq(Entry)]
       /\ \A r \in Region, h \in Header : [hdr EXCEPT ![r] = h] \in [Region -> Header]
  BY <1>nil, FlashType, Zenon
<1>split. TypeOK <=> /\ CallTypeOK
                     /\ hdr \in [Region -> Header] /\ log \in [Region -> Seq(Entry)]
                     /\ cur \in Region /\ end \in Nat /\ force \in BOOLEAN
                     /\ stray \in BOOLEAN /\ damaged \in BOOLEAN /\ faults \in Nat
  BY DEF TypeOK, CallTypeOK
<1>goal. SUFFICES /\ CallTypeOK'
                  /\ hdr' \in [Region -> Header] /\ log' \in [Region -> Seq(Entry)]
                  /\ cur' \in Region /\ end' \in Nat /\ force' \in BOOLEAN
                  /\ stray' \in BOOLEAN /\ damaged' \in BOOLEAN /\ faults' \in Nat
  BY DEF TypeOK, CallTypeOK
<1> USE DEF Header, PcBoot, PcSet, PcMounted
<1>1. ASSUME NEW r \in Region, mount(r)
      PROVE  /\ CallTypeOK' <=> allowed' \in [Key -> SUBSET (Val \cup {None})]
             /\ cur' \in Region /\ end' \in Nat /\ force' \in BOOLEAN
  <2>1. HasGarbage(log[r]) \in BOOLEAN
    BY DEF HasGarbage
  <2> QED BY <1>1, <1>end, <2>1 DEF mount, NoCall, CallTypeOK
<1>2. CASE init_both
  BY <1>2, <1>1, <1>reg, <1>split
    DEF init_both, flashVars, ghostVars, CallTypeOK
<1>3. CASE init_recreate
  BY <1>3, <1>reg, <1>fl, <1>split, SMTT(30)
    DEF init_recreate, ramVars, callVars, ghostVars, CallTypeOK
<1>4. CASE init_recreate_header
  BY <1>4, <1>1, <1>reg, <1>split, FlashType, Zenon
    DEF init_recreate_header, ghostVars, CallTypeOK
<1>5. CASE init_fails \/ init_notfound
  BY <1>5, <1>split
    DEF init_fails, init_notfound, flashVars, ramVars, callVars, ghostVars, CallTypeOK
<1>6. CASE sysparam_create_area
  <2>1. ASSUME NEW r \in Region, NEW at, NEW next \in PcBoot, create_erase(r, at, next)
        PROVE  TypeOK'
    BY <2>1, <1>nil, FlashType, SMTT(20)
      DEF create_erase, ramVars, callVars, ghostVars, TypeOK
  <2>2. CASE create_header0
    BY <2>2, <1>reg, <1>split, <1>fl
      DEF create_header0, ramVars, callVars, ghostVars, CallTypeOK
  <2>3. CASE create_header1
    BY <2>3, <1>reg, <1>split, <1>fl
      DEF create_header1, NoCall, ramVars, CallTypeOK
  <2> QED BY <1>6, <1>reg, <2>1, <2>2, <2>3, Zenon DEF sysparam_create_area, TypeOK, CallTypeOK
<1>7. CASE compact_erase
  BY <1>7, <1>reg, <1>fl, <1>split
    DEF compact_erase, ramVars, ghostVars, CallTypeOK
<1>8. CASE compact_header_new
  BY <1>8, <1>reg, <1>fl, <1>split
    DEF compact_header_new, ramVars, callVars, ghostVars, CallTypeOK
<1>9. CASE compact_copy
  <2>1. PICK j \in ToCopy :
          LET k == KeyEntry(n + 1, Cur[j].data, "alive")
              v == ValueEntry(n + 1, Cur[find_value(Cur, j)].data, "alive")
          IN  /\ log' = [log EXCEPT ![Alt] = IF Cur[j].id = kid THEN Append(@, k)
                                             ELSE Append(Append(@, k), v)]
              /\ kid' = IF Cur[j].id = kid THEN n + 1 ELSE kid
              /\ it' = j
    BY <1>9, Zenon DEF compact_copy
  <2> DEFINE k == KeyEntry(n + 1, Cur[j].data, "alive")
             v == ValueEntry(n + 1, Cur[find_value(Cur, j)].data, "alive")
             L == IF Cur[j].id = kid THEN Append(log[Alt], k)
                  ELSE Append(Append(log[Alt], k), v)
  <2>2. Cur \in Seq(Entry) /\ n + 1 \in Nat /\ kid \in Nat
    BY DEF TypeOK, Cur
  <2>3. j \in DOMAIN Cur /\ j \in Nat /\ find_value(Cur, j) \in DOMAIN Cur
    BY <2>2, FindValue DEF ToCopy, Keys, Values
  <2>4. Cur[j] \in Entry /\ Cur[find_value(Cur, j)] \in Entry
    BY <2>2, <2>3, ElementOfSeq
  <2>5. k \in Entry /\ v \in Entry
    BY <2>2, <2>4 DEF KeyEntry, ValueEntry, Entry
  <2> HIDE DEF k, v
  <2>6. L \in Seq(Entry)
    BY <1>reg, <1>log, <2>5
  <2>7. log' = [log EXCEPT ![Alt] = L]
    BY <2>1 DEF k, v
  <2> HIDE DEF L
  <2>8. log' \in [Region -> Seq(Entry)]
    BY <1>reg, <2>6, <2>7, FlashType
  <2> QED BY <1>9, <1>split, <2>1, <2>2, <2>3, <2>8, SMTT(20)
        DEF compact_copy, ramVars, ghostVars, CallTypeOK
<1>10. CASE compact_header_old
  <2>1. hdr' \in [Region -> Header]
    BY <1>10, <1>reg, <1>fl DEF compact_header_old
  <2>2. Len(log[Alt]) \in Nat
    BY <1>reg, <1>log
  <2>3. CallTypeOK'
    <3>1. CASE Fail("FULL")
      BY <3>1, FailType
    <3>2. CASE ~Fail("FULL")
      BY <1>10, <1>split, <3>2 DEF compact_header_old, CallTypeOK
    <3> QED BY <3>1, <3>2
  <2> QED BY <1>10, <1>reg, <1>split, <2>1, <2>2, <2>3, Zenon
        DEF compact_header_old
<1>11. ASSUME NEW e \in Entry, NEW next, pc \in {"keyHdr", "valHdr"},
              write_header(e, next)
       PROVE  log' \in [Region -> Seq(Entry)] /\ end' \in Nat /\ pc' = next
  BY <1>11, <1>split, <1>tip DEF write_header
<1>12. CASE key_header
  <2>1. KeyEntry(n + 1, key, "writing") \in Entry
    BY DEF KeyEntry, Entry, TypeOK
  <2>2. log' \in [Region -> Seq(Entry)] /\ end' \in Nat /\ pc' = "keyOk"
    BY <1>11, <1>12, <2>1 DEF key_header
  <2> QED BY <1>12, <1>split, <2>2 DEF key_header, ghostVars, CallTypeOK
<1>13. CASE value_header
  <2>1. ValueEntry(kid, val, "writing") \in Entry
    BY DEF ValueEntry, Entry, TypeOK
  <2>2. log' \in [Region -> Seq(Entry)] /\ end' \in Nat /\ pc' = "valOk"
    BY <1>11, <1>13, <2>1 DEF value_header
  <2>3. stray' \in BOOLEAN
    BY <1>13 DEF value_header
  <2> QED BY <1>13, <1>split, <2>2, <2>3 DEF value_header, callVars, CallTypeOK
<1>14. [log EXCEPT ![cur][end].st = "alive"] \in [Region -> Seq(Entry)]
  BY <1>reg, <1>split, FlashType, Zenon
<1>15. CASE key_valid
  BY <1>15, <1>14, <1>split
    DEF key_valid, ramVars, callVars, ghostVars, CallTypeOK
<1>16. CASE value_valid
  BY <1>16, <1>14, <1>split, SucceedType, SMTT(30)
    DEF value_valid, ramVars, callVars, CallTypeOK
<1>17. CASE write_over_left
  <2>1. log' \in [Region -> Seq(Entry)] /\ end' \in Nat
    BY <1>17, <1>tip, <1>junk, <1>split DEF write_over_left
  <2>2. Fail("IO") => CallTypeOK'
    BY FailType
  <2> QED BY <1>17, <1>split, <2>1, <2>2 DEF write_over_left
<1>dead. [log EXCEPT ![OldRegion][old].st = "dead"] \in [Region -> Seq(Entry)]
  <2>1. OldRegion \in Region
    BY <1>reg DEF OldRegion
  <2> QED BY <2>1, <1>split, FlashType, Zenon DEF CallTypeOK
<1>18. CASE delete_old
  BY <1>18, <1>split, <1>dead, SucceedType DEF delete_old, ramVars
<1>19. ASSUME reformat \/ call_noinit PROVE TypeOK'
  <2>1. CASE reformat
    <3>1. [k \in Key |-> allowed[k] \cup {None}] \in [Key -> SUBSET (Val \cup {None})]
      BY DEF TypeOK
    <3> QED BY <2>1, <3>1, <1>reg, Zenon DEF reformat, flashVars, TypeOK
  <2>2. CASE call_noinit
    BY <2>2 DEF call_noinit, flashVars, ramVars, callVars, ghostVars, TypeOK
  <2> QED BY <1>19, <2>1, <2>2
<1>20. \A k, v : ForceAfterScan(k, v) \in BOOLEAN
  BY DEF ForceAfterScan
<1>21. ASSUME NEW k \in Key, get(k) PROVE TypeOK'
  BY <1>20, <1>21 DEF get, flashVars, callVars, ghostVars, TypeOK
<1>22. ASSUME NEW k \in Key, NEW v \in Val \cup {None}, set_nothing_to_do(k, v)
       PROVE  TypeOK'
  <2>1. allowed' \in [Key -> SUBSET (Val \cup {None})]
    BY <1>22, FinishedType, AllowedType DEF set_nothing_to_do
  <2> QED BY <1>20, <1>22, <2>1 DEF set_nothing_to_do, flashVars, callVars, TypeOK
<1>23. ASSUME NEW k \in Key, set_delete(k) PROVE TypeOK'
  BY <1>23, ScanType DEF set_delete, flashVars, ramVars, ghostVars, TypeOK
<1>24. ASSUME NEW k \in Key, NEW v \in Val, set_full(k, v) PROVE TypeOK'
  BY <1>20, <1>24 DEF set_full, flashVars, callVars, ghostVars, TypeOK
<1>25. ASSUME NEW k \in Key, NEW v \in Val, set_compact(k, v) PROVE TypeOK'
  BY <1>20, <1>25, ScanType DEF set_compact, flashVars, ghostVars, TypeOK
<1>26. ASSUME NEW k \in Key, NEW v \in Val, set_append(k, v) PROVE TypeOK'
  BY <1>26, ScanType DEF set_append, flashVars, ramVars, ghostVars, TypeOK
<1>27. ASSUME NEW kind, Failure(kind) PROVE faults' \in Nat
  BY <1>27, <1>split DEF Failure
<1>28. Fail("IO") => CallTypeOK'
  BY FailType
<1>29. CASE entry_header_fails
  <2>1. log' \in [Region -> Seq(Entry)] /\ end' \in Nat
    <3>1. \/ \E e \in {Junk("zero"), Junk("garbage"), NewHeader} : log' = AtEnd(e)
          \/ log' = log
      BY <1>29, Zenon DEF entry_header_fails
    <3>2. pc \in {"keyHdr", "valHdr"} /\ (end' = end \/ end' = end + 1)
      BY <1>29, Zenon DEF entry_header_fails
    <3>3. log' \in [Region -> Seq(Entry)]
      <4>1. \A e \in {Junk("zero"), Junk("garbage"), NewHeader} : e \in Entry
        BY <1>junk, NewHeaderType, Zenon
      <4> QED BY <1>split, <1>tip, <3>1, <3>2, <4>1, Zenon
    <3> QED BY <1>split, <3>2, <3>3
  <2> QED BY <1>27, <1>28, <1>29, <1>split, <2>1 DEF entry_header_fails
<1>30. CASE entry_valid_fails \/ delete_fails
  BY <1>14, <1>dead, <1>27, <1>28, <1>30, <1>split, Zenon
    DEF entry_valid_fails, delete_fails, ramVars
<1>31. CASE compact_fails
  BY <1>27, <1>28, <1>31, <1>split, <1>reg, <1>fl, Zenon DEF compact_fails
<1>32. \A r \in Region, h \in Header :
         header_unverified(r, h) => hdr' \in [Region -> Header]
  <2>1. \A r \in Region : hdr[r] \in Header
    BY <1>split
  <2> QED BY <1>fl, <2>1 DEF header_unverified
<1>33. CASE compact_header_fails
  <2>1. hdr' \in [Region -> Header]
    BY <1>32, <1>33, <1>reg DEF compact_header_fails
  <2> QED BY <1>27, <1>28, <1>33, <1>split, <2>1 DEF compact_header_fails, ramVars
<1>34. CASE area_fails
  <2>1. hdr' \in [Region -> Header]
    BY <1>32, <1>34, <1>reg, <1>fl, <1>split, Zenon DEF area_fails
  <2> QED BY <1>27, <1>34, <1>split, <2>1 DEF area_fails, ramVars, NoCall, CallTypeOK
<1>35. CASE power_cut
  <2>1. allowed' \in [Key -> SUBSET (Val \cup {None})]
    BY <1>35, <1>split, UnfinishedType, AllowedType DEF power_cut, CallTypeOK
  <2>2. damaged' \in BOOLEAN
    BY <1>35, <1>split DEF power_cut
  <2> QED BY <1>27, <1>35, <1>reg, <1>split, <2>1, <2>2, Zenon
        DEF power_cut, NoCall, flashVars, CallTypeOK
<1>36. CASE UNCHANGED vars
  BY <1>36, <1>split DEF vars, CallTypeOK
<1>37. CASE Step
  BY <1>37, <1>2, <1>3, <1>4, <1>5, <1>6, <1>7, <1>8, <1>9, <1>10, <1>12, <1>13,
     <1>15, <1>16, <1>17, <1>18, ZenonT(60)
  DEF Step, sysparam_init, compact_params, set_writes
<1>38. CASE Call
  <2>1. TypeOK'
    BY <1>38, <1>19, <1>21, <1>22, <1>23, <1>24, <1>25, <1>26 DEF Call
  <2> QED BY <2>1, SMTT(20) DEF TypeOK, CallTypeOK
<1>39. CASE Fault
  BY <1>39, <1>29, <1>30, <1>31, <1>33, <1>34, <1>35, ZenonT(30) DEF Fault
<1> QED
  BY <1>36, <1>37, <1>38, <1>39, Zenon DEF Next

(* Making an entry valid or deleted leaves the regions as long as they are. *)
LEMMA FlagsKeepLength ==
  ASSUME TypeOK, NEW r \in Region, NEW i \in Nat, NEW s \in {"writing", "alive", "dead"},
         log' = [log EXCEPT ![r][i].st = s]
  PROVE  \A q \in Region : Len(log'[q]) = Len(log[q])
<1>1. DOMAIN log = Region /\ \A q \in Region : log[q] \in Seq(Entry)
  BY DEF TypeOK
<1>2. Len([log[r] EXCEPT ![i].st = s]) = Len(log[r])
  BY <1>1, ChangedFlags, Zenon
<1>3. log' = [log EXCEPT ![r] = [log[r] EXCEPT ![i].st = s]]
  OBVIOUS
<1> DEFINE L == [log[r] EXCEPT ![i].st = s]
<1> HIDE DEF L
<1>4. log'[r] = L /\ \A q \in Region : q # r => log'[q] = log[q]
  BY <1>1, <1>3 DEF L
<1> QED
  BY <1>2, <1>4 DEF L

(* A step that ends in no mounted area, or moves neither the current       *)
(* region nor its end nor shortens it, keeps EndInv.                       *)
LEMMA EndKept ==
  ASSUME TypeOK, EndInv,
         \/ pc' \notin PcMounted
         \/ /\ pc \in PcMounted /\ cur' = cur /\ end' = end
            /\ Len(log'[cur]) = Len(log[cur])
  PROVE  EndInv'
  BY DEF EndInv, Cur

(* A write at end_addr keeps EndInv, whether it moves end_addr or not.     *)
LEMMA EndWritten ==
  ASSUME TypeOK, EndInv, pc \in {"keyHdr", "valHdr"}, NEW e \in Entry,
         log' = AtEnd(e), cur' = cur, end' \in {end, end + 1}
  PROVE  EndInv'
<1>1. cur \in Region /\ DOMAIN log = Region /\ log[cur] \in Seq(Entry) /\ end \in Nat
  BY DEF TypeOK
<1>2. end <= Len(log[cur])
  BY DEF EndInv, Cur, PcMounted, PcSet
<1>3. Len(Append(SubSeq(log[cur], 1, end), e)) = end + 1
  BY <1>1, <1>2, Cutoff
<1>4. Cur' = Append(SubSeq(log[cur], 1, end), e)
  BY <1>1 DEF AtEnd, Cur
<1> QED
  BY <1>1, <1>3, <1>4 DEF EndInv

(* Every step keeps EndInv: sysparam_init and a compaction set end_addr to *)
(* the end of the entries they found or wrote.                             *)
LEMMA EndStep ==
  TypeOK /\ EndInv /\ [Next]_vars => EndInv'
<1> SUFFICES ASSUME TypeOK, EndInv, [Next]_vars PROVE EndInv'
  OBVIOUS
<1>0. /\ cur \in Region /\ Alt \in Region /\ Alt # cur /\ DOMAIN log = Region
      /\ end \in Nat /\ old \in Nat /\ OldRegion \in Region
      /\ \A r \in Region : log[r] \in Seq(Entry) /\ Len(log[r]) \in Nat
  BY DEF TypeOK, Alt, Other, Region, OldRegion
<1>1. ASSUME NEW r \in Region, mount(r), log' = log PROVE EndInv'
  <2>1. EndOf(log[r]) <= Len(log[r])
    BY <1>0, EndOfType
  <2> QED BY <1>1, <2>1 DEF mount, EndInv, Cur
<1>2. CASE sysparam_init
  <2>1. CASE init_both \/ init_recreate_header
    BY <1>1, <2>1 DEF init_both, init_recreate_header, flashVars, Region
  <2>2. CASE init_recreate \/ init_fails \/ init_notfound
    BY <2>2, EndKept DEF init_recreate, init_fails, init_notfound, PcMounted, PcSet
  <2> QED BY <1>2, <2>1, <2>2, Zenon DEF sysparam_init
<1>3. CASE sysparam_create_area
  BY <1>3, EndKept DEF sysparam_create_area, create_erase, create_header0,
    create_header1, PcMounted, PcSet
<1>4. CASE compact_erase \/ compact_copy \/ compact_header_new
  <2>1. /\ pc \in PcMounted /\ cur' = cur /\ end' = end
    BY <1>4 DEF compact_erase, compact_copy, compact_header_new, ramVars, PcMounted, PcSet
  <2>2. log'[cur] = log[cur]
    BY <1>0, <1>4 DEF compact_erase, compact_copy, compact_header_new
  <2> QED BY <2>1, <2>2, EndKept
<1>5. CASE compact_header_old
  BY <1>0, <1>5 DEF compact_header_old, EndInv, Cur
<1>6. ASSUME NEW e \in Entry, NEW next, pc \in {"keyHdr", "valHdr"},
             write_header(e, next), cur' = cur
      PROVE  EndInv'
  BY <1>6, EndWritten DEF write_header
<1>7. CASE key_header \/ value_header
  <2>1. KeyEntry(n + 1, key, "writing") \in Entry /\ ValueEntry(kid, val, "writing") \in Entry
    BY DEF TypeOK, KeyEntry, ValueEntry, Entry
  <2> QED BY <1>6, <1>7, <2>1 DEF key_header, value_header
<1>8. Junk("zero") \in Entry /\ Junk("garbage") \in Entry /\ NewHeader \in Entry
  BY NewHeaderType DEF Junk, Entry
<1>9. CASE write_over_left
  BY <1>8, <1>9, EndWritten DEF write_over_left
<1>10. CASE entry_header_fails
  <2>1. cur' = cur /\ pc \in {"keyHdr", "valHdr"} /\ end' \in {end, end + 1}
    BY <1>10, Zenon DEF entry_header_fails
  <2>2. CASE \E e \in {Junk("zero"), Junk("garbage"), NewHeader} : log' = AtEnd(e)
    BY <1>8, <2>1, <2>2, EndWritten
  <2>3. CASE UNCHANGED <<log, end>>
    BY <2>1, <2>3, EndKept DEF PcMounted, PcSet
  <2> QED BY <1>10, <2>2, <2>3, Zenon DEF entry_header_fails
<1>11. ASSUME pc \in PcMounted, cur' = cur, end' = end,
              \/ log' = log
              \/ log' = [log EXCEPT ![cur][end].st = "alive"]
              \/ log' = [log EXCEPT ![OldRegion][old].st = "dead"]
       PROVE  EndInv'
  <2>1. Len(log'[cur]) = Len(log[cur])
    BY <1>0, <1>11, FlagsKeepLength
  <2> QED BY <1>11, <2>1, EndKept
<1>12. CASE key_valid \/ value_valid \/ delete_old
  BY <1>11, <1>12 DEF key_valid, value_valid, delete_old, ramVars, PcMounted, PcSet
<1>13. CASE entry_valid_fails \/ delete_fails
  BY <1>11, <1>13 DEF entry_valid_fails, delete_fails, ramVars, PcMounted, PcSet
<1>14. CASE compact_fails \/ compact_header_fails
  BY <1>11, <1>14 DEF compact_fails, compact_header_fails, ramVars, PcMounted, PcSet
<1>15. CASE area_fails \/ power_cut
  BY <1>15, EndKept DEF area_fails, power_cut, PcMounted, PcSet
<1>16. CASE reformat \/ call_noinit
  BY <1>16, EndKept DEF reformat, call_noinit, PcMounted, PcSet
<1>17. ASSUME NEW k \in Key,
              \/ get(k) \/ set_delete(k)
              \/ \E v \in Val \cup {None} :
                   \/ set_nothing_to_do(k, v) \/ set_full(k, v)
                   \/ set_compact(k, v) \/ set_append(k, v)
       PROVE  EndInv'
  <2>1. pc \in PcMounted /\ cur' = cur /\ end' = end /\ log' = log
    BY <1>17, Zenon DEF get, set_delete, set_nothing_to_do, set_full, set_compact,
      set_append, flashVars, ramVars, PcMounted, PcSet
  <2> QED BY <1>11, <2>1
<1>18. CASE UNCHANGED vars
  BY <1>18 DEF vars, EndInv, Cur
<1>19. CASE Call
  BY <1>16, <1>17, <1>19, Zenon DEF Call
<1>20. CASE Fault
  BY <1>10, <1>13, <1>14, <1>15, <1>20, Zenon DEF Fault
<1> QED
  BY <1>2, <1>3, <1>4, <1>5, <1>7, <1>9, <1>12, <1>18, <1>19, <1>20, Zenon
  DEF Next, Step, compact_params, set_writes

(* Types and the end of the entries hold together in every state.          *)
LEMMA TypeAndEnd == Spec => [](TypeOK /\ EndInv)
<1>1. Init => TypeOK /\ EndInv
  <2>1. <<>> \in Seq(Entry)
    OBVIOUS
  <2>2. Init => TypeOK
    BY <2>1, SMTT(20) DEF Init, TypeOK, Region, Header, PcBoot
  <2>3. Init => EndInv
    BY DEF Init, EndInv, PcMounted, PcSet
  <2> QED BY <2>2, <2>3
<1>2. TypeOK /\ EndInv /\ [Next]_vars => (TypeOK /\ EndInv)'
  BY TypeStep, EndStep
<1> QED
  BY <1>1, <1>2, PTL DEF Spec

(* The type invariant holds in every reachable state.                      *)
THEOREM TypeCorrect == Spec => []TypeOK
  BY TypeAndEnd, PTL

-----------------------------------------------------------------------------
(* An area that was mounted once can be mounted again.                     *)

(* Every step keeps HeadersInv.  The steps that write headers are the      *)
(* interesting ones; all others change at most pc.                         *)
LEMMA HeadersStep ==
  TypeOK /\ HeadersInv /\ [Next]_vars => HeadersInv'
<1> SUFFICES ASSUME TypeOK, HeadersInv, [Next]_vars, ~damaged' PROVE HeadersInv'
  BY DEF HeadersInv
<1> USE DEF HeadersInv, PcSet, PcMounted, Blank, Missing, Region, Other, Alt
<1>0. cur \in {0, 1} /\ hdr \in [{0, 1} -> Header] /\ DOMAIN log = {0, 1}
  BY DEF TypeOK
<1>1. CASE sysparam_init
  <2>1. CASE init_both
    BY <1>0, <2>1 DEF init_both, mount, flashVars, ghostVars
  <2>2. CASE init_recreate
    BY <1>0, <2>2 DEF init_recreate, ghostVars
  <2>3. CASE init_recreate_header
    BY <1>0, <2>3 DEF init_recreate_header, mount, ghostVars
  <2>4. CASE init_fails
    BY <1>0, <2>4 DEF init_fails, ghostVars
  <2>5. CASE init_notfound
    BY <1>0, <2>5 DEF init_notfound, flashVars, ghostVars
  <2> QED BY <1>1, <2>1, <2>2, <2>3, <2>4, <2>5, Zenon DEF sysparam_init
<1>2. CASE sysparam_create_area
  <2>1. CASE create_erase(0, "fmt0", "fmt1") \/ create_erase(1, "fmt1", "fmtHdr0")
    BY <1>0, <2>1 DEF create_erase, callVars, ghostVars
  <2>2. CASE create_header0 \/ create_header1
    BY <1>0, <2>2 DEF create_header0, create_header1, ghostVars
  <2> QED BY <1>2, <2>1, <2>2 DEF sysparam_create_area
<1>3. CASE compact_params
  <2>1. CASE compact_erase \/ compact_copy
    BY <1>0, <2>1 DEF compact_erase, compact_copy, ramVars, ghostVars
  <2>2. CASE compact_header_new
    BY <1>0, <2>2 DEF compact_header_new, ramVars, ghostVars
  <2>3. CASE compact_header_old
    BY <1>0, <2>3 DEF compact_header_old, Fail
  <2> QED BY <1>3, <2>1, <2>2, <2>3, Zenon DEF compact_params
<1>4. CASE set_writes
  <2>1. UNCHANGED <<hdr, cur, damaged>> /\ pc \in PcSet
    BY <1>4 DEF set_writes, key_header, key_valid, value_header, value_valid,
      write_over_left, delete_old, ramVars, ghostVars
  <2>2. pc' \in {"keyOk", "valHdr", "valOk", "del", "idle"}
    BY <1>4 DEF set_writes, key_header, key_valid, value_header, value_valid,
      write_over_left, delete_old, write_header, Succeed, Fail
  <2> QED BY <2>1, <2>2
<1>5. CASE Call
  <2>1. CASE reformat
    BY <2>1 DEF reformat, flashVars
  <2>2. CASE call_noinit
    BY <2>2 DEF call_noinit, flashVars, ramVars, ghostVars
  <2>3. ASSUME pc = "idle", pc' \in {"idle", "del", "erase", "keyHdr", "valHdr"},
               UNCHANGED <<hdr, cur, damaged>>
        PROVE  HeadersInv'
    BY <2>3
  <2>4. ASSUME NEW k \in Key, get(k) \/ set_delete(k) PROVE HeadersInv'
    BY <2>3, <2>4, SMTT(20) DEF get, set_delete, flashVars, ramVars, ghostVars
  <2>5. ASSUME NEW k \in Key, NEW v \in Val \cup {None}, set_nothing_to_do(k, v)
        PROVE  HeadersInv'
    BY <2>3, <2>5 DEF set_nothing_to_do, flashVars
  <2>6. ASSUME NEW k \in Key, NEW v \in Val, set_full(k, v) \/ set_compact(k, v)
        PROVE  HeadersInv'
    <3>1. CASE set_full(k, v)
      BY <2>3, <3>1, SMTT(20) DEF set_full, flashVars, ghostVars
    <3>2. CASE set_compact(k, v)
      BY <2>3, <3>2 DEF set_compact, flashVars, ghostVars
    <3> QED BY <2>6, <3>1, <3>2, Zenon
  <2>7. ASSUME NEW k \in Key, NEW v \in Val, set_append(k, v)
        PROVE  HeadersInv'
    BY <2>3, <2>7 DEF set_append, flashVars, ramVars, ghostVars
  <2> QED BY <1>5, <2>1, <2>2, <2>4, <2>5, <2>6, <2>7, Zenon DEF Call
<1>6. CASE Fault
  <2>1. CASE entry_header_fails \/ entry_valid_fails \/ delete_fails
    BY <1>0, <2>1 DEF entry_header_fails, entry_valid_fails, delete_fails, Fail,
      ramVars
  <2>2. CASE compact_fails
    BY <1>0, <2>2, SMTT(20) DEF compact_fails, Fail
  <2>3. CASE compact_header_fails \/ area_fails
    BY <2>3 DEF compact_header_fails, area_fails
  <2>4. CASE power_cut
    <3>1. ~damaged /\ why # "reformat" /\ pc \in PcBoot \cup PcMounted
      BY <2>4, Zenon DEF power_cut, TypeOK
    <3>2. (\A r \in Region : Blank(r)) \/ (\E r \in Region : hdr[r] = "active")
      BY <1>0, <2>4, <3>1 DEF power_cut, PcBoot
    <3> QED BY <2>4, <3>2 DEF power_cut, flashVars
  <2> QED BY <1>6, <2>1, <2>2, <2>3, <2>4, Zenon DEF Fault
<1>7. CASE UNCHANGED vars
  BY <1>7 DEF vars
<1> QED
  BY <1>1, <1>2, <1>3, <1>4, <1>5, <1>6, <1>7, Zenon DEF Next, Step

(* Boot never fails to mount the area, whichever write of a set call, a    *)
(* compaction, a boot or a first creation the power cut fell on.           *)
THEOREM AlwaysMountable == Spec => []Mountable
<1>1. Init => HeadersInv
  BY DEF Init, HeadersInv, Blank, Region, PcSet, PcMounted
<1>2. HeadersInv => Mountable
  BY DEF HeadersInv, Mountable
<1> QED
  BY <1>1, <1>2, TypeCorrect, HeadersStep, PTL DEF Spec

-----------------------------------------------------------------------------
(* Keys stay in order.                                                     *)

(* Keys are entries of the list and have ids.                              *)
LEMMA KeysType ==
  ASSUME NEW L \in Seq(Entry)
  PROVE  /\ Len(L) \in Nat
         /\ \A i \in Keys(L) : i \in 1 .. Len(L) /\ i \in Nat /\ L[i].id \in Nat
<1>1. \A i \in Keys(L) : i \in 1 .. Len(L) /\ i \in Nat
  BY DEF Keys
<1>2. \A i \in Keys(L) : L[i] \in Entry
  BY <1>1, ElementOfSeq
<1> QED
  BY <1>1, <1>2 DEF Entry

(* M has no key that L has not.                                            *)
KeysKept(M, L) ==
  /\ Keys(M) \subseteq Keys(L)
  /\ \A i \in Keys(M) : M[i].id = L[i].id /\ M[i].data = L[i].data

(* Losing keys keeps the others in order.                                  *)
LEMMA KeptOrdered ==
  ASSUME NEW L, NEW M, KeysKept(M, L), Ordered(L)
  PROVE  Ordered(M)
  BY DEF KeysKept, Ordered

(* The writes that add no valid key: an entry that is none is written,     *)
(* an entry becomes deleted or junk, a value becomes valid.                *)
LEMMA KeptByWrites ==
  ASSUME NEW L \in Seq(Entry)
  PROVE  /\ KeysKept(L, L) /\ KeysKept(<<>>, L)
         /\ \A m \in 0 .. Len(L) : \A e \in Entry :
              ~IsKey(e) => KeysKept(Append(SubSeq(L, 1, m), e), L)
         /\ \A i \in Nat : KeysKept([L EXCEPT ![i].st = "dead"], L)
         /\ \A i \in 1 .. Len(L) :
              L[i].kind = "value" => KeysKept([L EXCEPT ![i].st = "alive"], L)
<1> USE DEF KeysKept, Keys, IsKey
<1>0. Len(L) \in Nat /\ DOMAIN L = 1 .. Len(L) /\ \A i \in 1 .. Len(L) : L[i] \in Entry
  BY ElementOfSeq
<1>1. KeysKept(L, L) /\ KeysKept(<<>>, L)
  OBVIOUS
<1>2. ASSUME NEW m \in 0 .. Len(L), NEW e \in Entry, ~IsKey(e)
      PROVE  KeysKept(Append(SubSeq(L, 1, m), e), L)
  <2> DEFINE M == Append(SubSeq(L, 1, m), e)
  <2>1. m \in Nat /\ m <= Len(L) /\ 1 .. m \subseteq 1 .. Len(L)
    BY <1>0
  <2>2. /\ M \in Seq(Entry) /\ Len(M) = m + 1 /\ M[m + 1] = e
        /\ \A i \in 1 .. m : M[i] = L[i]
    BY <2>1, Cutoff
  <2> HIDE DEF M
  <2>3. DOMAIN M = 1 .. (m + 1) /\ \A i \in DOMAIN M : i \in 1 .. m \/ i = m + 1
    BY <2>1, <2>2
  <2>4. KeysKept(M, L)
    BY <1>0, <1>2, <2>1, <2>2, <2>3
  <2> QED BY <2>4 DEF M
<1>3. ASSUME NEW i \in Nat PROVE KeysKept([L EXCEPT ![i].st = "dead"], L)
  BY <1>0 DEF Entry
<1>4. ASSUME NEW i \in 1 .. Len(L), L[i].kind = "value"
      PROVE  KeysKept([L EXCEPT ![i].st = "alive"], L)
  BY <1>0, <1>4 DEF Entry
<1> QED
  BY <1>1, <1>2, <1>3, <1>4

(* Adding a key with a new name and an id above the others, whether it is  *)
(* appended as a valid entry or the last entry becomes valid.              *)
LEMMA AddedKey ==
  ASSUME NEW L \in Seq(Entry), NEW M, NEW m \in Nat, NEW k, NEW p \in Nat,
         Ordered(L), Addable(L, m, k),
         \A i \in Keys(L) : i < p,
         Keys(M) = Keys(L) \cup {p},
         \A i \in Keys(L) : M[i] = L[i],
         M[p].id = m + 1, M[p].data = k
  PROVE  Ordered(M)
<1>1. \A i \in Keys(L) : L[i].id \in Nat /\ i \in Nat
  BY KeysType
<1>2. \A i \in Keys(M) : M[i].id > 0
  BY <1>1 DEF Ordered
<1>3. ASSUME NEW i \in Keys(M), NEW j \in Keys(M), i < j
      PROVE  M[i].id < M[j].id /\ M[i].data # M[j].data
  <2>1. CASE i \in Keys(L) /\ j \in Keys(L)
    BY <1>3, <2>1 DEF Ordered
  <2>2. CASE i \in Keys(L) /\ j = p
    BY <1>1, <2>2 DEF Addable
  <2>3. CASE i = p
    BY <1>1, <1>3, <2>3
  <2> QED BY <2>1, <2>2, <2>3
<1> QED
  BY <1>2, <1>3 DEF Ordered

(* The values of pc at which KeysInv says more than that keys are in order. *)
Busy == {"erase", "copy", "hdrOld", "keyHdr", "keyOk", "valOk"}

(* A step after which no region has a key it had not before.               *)
NoKeyAdded == \A r \in Region : KeysKept(log'[r], log[r])

(* What the type invariant says of the two regions.                        *)
LEMMA Regions ==
  ASSUME TypeOK
  PROVE  /\ cur \in Region /\ Alt \in Region /\ Alt # cur
         /\ \A r \in Region : Other(r) \in Region
         /\ DOMAIN log = Region /\ (\A r \in Region : log[r] \in Seq(Entry))
         /\ Cur = log[cur] /\ Cur \in Seq(Entry)
         /\ n \in Nat /\ end \in Nat /\ old \in Nat /\ it \in Nat /\ kid \in Nat
  BY DEF TypeOK, Cur, Alt, Other, Region

(* Both regions are in order.                                              *)
LEMMA RegionsOrdered ==
  ASSUME KeysInv
  PROVE  \A r \in Region : Ordered(log[r])
  BY DEF KeysInv

(* A step adds no key if it leaves the log alone, erases a region, or      *)
(* replaces a region's entries by entries without new keys.                *)
LEMMA NoKeyAddedBy ==
  ASSUME TypeOK
  PROVE  /\ UNCHANGED log => NoKeyAdded
         /\ \A r \in Region : log' = [log EXCEPT ![r] = <<>>] => NoKeyAdded
         /\ \A r \in Region : \A L :
              log' = [log EXCEPT ![r] = L] /\ KeysKept(L, log[r]) => NoKeyAdded
<1>1. \A r \in Region : KeysKept(log[r], log[r]) /\ KeysKept(<<>>, log[r])
  BY Regions, KeptByWrites, Zenon
<1>2. ASSUME UNCHANGED log PROVE NoKeyAdded
  BY <1>1, <1>2, Zenon DEF NoKeyAdded
<1>3. ASSUME NEW r \in Region, NEW L, log' = [log EXCEPT ![r] = L], KeysKept(L, log[r])
      PROVE  NoKeyAdded
  BY Regions, <1>1, <1>3, SMTT(20) DEF NoKeyAdded
<1> QED
  BY <1>1, <1>2, <1>3, Zenon

(* Such a step keeps regions in order, and the invariant between writes.   *)
LEMMA NoKeyAddedKeeps ==
  ASSUME TypeOK, KeysInv, NoKeyAdded
  PROVE  /\ \A r \in Region : Ordered(log'[r])
         /\ pc' \notin Busy => KeysInv'
<1>1. \A r \in Region : Ordered(log'[r])
  BY RegionsOrdered, KeptOrdered, Zenon DEF NoKeyAdded
<1> QED
  BY <1>1 DEF KeysInv, Busy

(* Writing an entry that is no valid key at end_addr adds no key.          *)
LEMMA AtEndKept ==
  ASSUME TypeOK, EndInv, pc \in {"keyHdr", "valHdr"},
         NEW e \in Entry, ~IsKey(e), log' = AtEnd(e)
  PROVE  /\ NoKeyAdded
         /\ KeysKept(log'[cur], Cur)
         /\ Len(log'[cur]) = end + 1 /\ log'[cur][end + 1] = e
<1> DEFINE M == Append(SubSeq(Cur, 1, end), e)
<1>1. end \in Nat /\ end <= Len(Cur) /\ end \in 0 .. Len(Cur)
  BY Regions DEF EndInv, PcMounted, PcSet
<1>2. KeysKept(M, Cur) /\ Len(M) = end + 1 /\ M[end + 1] = e
  BY Regions, <1>1, KeptByWrites, Cutoff
<1>3. log' = [log EXCEPT ![cur] = M]
  BY Regions DEF AtEnd
<1> HIDE DEF M
<1>4. log'[cur] = M
  BY Regions, <1>3
<1>5. NoKeyAdded
  BY Regions, NoKeyAddedBy, <1>2, <1>3, Zenon
<1> QED
  BY <1>2, <1>4, <1>5

(* Boot and re-creation add no key.                                        *)
LEMMA BootKeepsKeys ==
  ASSUME TypeOK, KeysInv, sysparam_init \/ sysparam_create_area
  PROVE  KeysInv'
<1>1. NoKeyAdded
  BY Regions, NoKeyAddedBy
    DEF sysparam_init, sysparam_create_area, init_both, init_recreate,
        init_recreate_header, init_fails, init_notfound, create_erase,
        create_header0, create_header1, flashVars, Region
<1>2. pc' \notin Busy
  BY Zenon
    DEF sysparam_init, sysparam_create_area, init_both, init_recreate,
        init_recreate_header, init_fails, init_notfound, create_erase,
        create_header0, create_header1, mount, Busy
<1> QED BY NoKeyAddedKeeps, <1>1, <1>2, SMTT(20)

(* The region a compaction is about to fill has no keys.                   *)
LEMMA EraseKeepsKeys ==
  ASSUME TypeOK, KeysInv, compact_erase
  PROVE  KeysInv'
<1>1. NoKeyAdded
  BY Regions, NoKeyAddedBy, Zenon DEF compact_erase
<1>2. /\ log'[Alt] = <<>> /\ Cur' = Cur /\ Alt' = Alt /\ key' = key /\ kid' = kid
      /\ pc = "erase" /\ pc' = "copy"
  BY Regions DEF compact_erase, ramVars, Cur, Alt
<1>3. Keys(<<>>) = {}
  BY DEF Keys
<1> QED BY NoKeyAddedKeeps, <1>1, <1>2, <1>3 DEF KeysInv

(* A key appended, and perhaps a value.                                    *)
LEMMA AppendTwo ==
  ASSUME NEW A \in Seq(Entry), NEW k, NEW v, NEW B,
         B = Append(A, k) \/ B = Append(Append(A, k), v)
  PROVE  /\ DOMAIN A = 1 .. Len(A)
         /\ DOMAIN B \in {1 .. (Len(A) + 1), 1 .. (Len(A) + 1 + 1)}
         /\ \A i \in 1 .. Len(A) : B[i] = A[i]
         /\ B[Len(A) + 1] = k
         /\ (Len(A) + 1 + 1 \in DOMAIN B => B[Len(A) + 1 + 1] = v)
<1> DEFINE C == Append(A, k)
<1>1. Len(A) \in Nat /\ DOMAIN A = 1 .. Len(A)
  OBVIOUS
<1>2. /\ Len(C) = Len(A) + 1 /\ DOMAIN C = 1 .. (Len(A) + 1)
      /\ (\A i \in 1 .. Len(A) : C[i] = A[i]) /\ C[Len(A) + 1] = k
  BY <1>1
<1>3. CASE B = C
  <2> HIDE DEF C
  <2> QED BY <1>1, <1>2, <1>3
<1>4. CASE B = Append(C, v)
  <2>1. C \in Seq(Entry \cup {k})
    OBVIOUS
  <2> HIDE DEF C
  <2>2. /\ DOMAIN B = 1 .. (Len(C) + 1) /\ B[Len(C) + 1] = v
        /\ \A i \in 1 .. Len(C) : B[i] = C[i]
    BY <1>4, <2>1
  <2> QED BY <1>1, <1>2, <2>2
<1> QED BY <1>3, <1>4

(* A copied key gets the next number, and its name is new to the region:   *)
(* the names copied before stand at or before iter in the old one.         *)
LEMMA CopyKeepsKeys ==
  ASSUME TypeOK, KeysInv, compact_copy
  PROVE  KeysInv'
<1> DEFINE A == log[Alt]
<1>1. PICK j \in ToCopy :
        LET k == KeyEntry(n + 1, Cur[j].data, "alive")
            v == ValueEntry(n + 1, Cur[find_value(Cur, j)].data, "alive")
        IN  /\ log' = [log EXCEPT ![Alt] = IF Cur[j].id = kid THEN Append(@, k)
                                           ELSE Append(Append(@, k), v)]
            /\ kid' = IF Cur[j].id = kid THEN n + 1 ELSE kid
            /\ it' = j
  BY Zenon DEF compact_copy
<1> DEFINE k == KeyEntry(n + 1, Cur[j].data, "alive")
           v == ValueEntry(n + 1, Cur[find_value(Cur, j)].data, "alive")
           B == IF Cur[j].id = kid THEN Append(A, k) ELSE Append(Append(A, k), v)
           p == Len(A) + 1
<1>2. /\ log' = [log EXCEPT ![Alt] = B]
      /\ pc = "copy" /\ pc' = "copy" /\ n' = n + 1 /\ key' = key
      /\ Cur' = Cur /\ Alt' = Alt
  BY Regions, <1>1 DEF compact_copy, ramVars, Cur, Alt
<1>3. A \in Seq(Entry) /\ Len(A) \in Nat /\ p \in Nat
      /\ (\A i \in Keys(A) : i \in 1 .. Len(A) /\ A[i].id \in Nat)
  BY Regions, KeysType
<1>4. /\ j \in Keys(Cur) /\ j > it
      /\ \A h \in Keys(Cur) : h \in Nat
  <2>1. Keys(Cur) \subseteq 1 .. Len(Cur) /\ Len(Cur) \in Nat
    BY Regions, KeysType
  <2> QED BY <2>1 DEF ToCopy
<1>5. Addable(A, n, Cur[j].data)
  <2>1. SUFFICES ASSUME NEW i \in Keys(A)
                 PROVE  A[i].id <= n /\ A[i].data # Cur[j].data
    BY DEF Addable
  <2>2. A[i].id <= n /\ \E h \in Keys(Cur) : h <= it /\ Cur[h].data = A[i].data
    BY <1>2 DEF KeysInv
  <2>3. PICK h \in Keys(Cur) : h <= it /\ Cur[h].data = A[i].data
    BY <2>2
  <2>4. h < j
    BY Regions, <1>4, <2>3
  <2> QED BY Regions, RegionsOrdered, <1>4, <2>2, <2>3, <2>4 DEF Ordered
<1>6. Keys(B) = Keys(A) \cup {p} /\ B[p] = k /\ \A i \in Keys(A) : B[i] = A[i]
  <2>1. IsKey(k) /\ ~IsKey(v)
    BY DEF IsKey, KeyEntry, ValueEntry
  <2> HIDE DEF k, v, A
  <2>2. /\ DOMAIN A = 1 .. Len(A) /\ DOMAIN B \in {1 .. p, 1 .. (p + 1)}
        /\ \A i \in 1 .. Len(A) : B[i] = A[i]
        /\ B[p] = k /\ (p + 1 \in DOMAIN B => B[p + 1] = v)
    <3>1. B = Append(A, k) \/ B = Append(Append(A, k), v)
      OBVIOUS
    <3> HIDE DEF B
    <3> QED BY <1>3, <3>1, AppendTwo
  <2> HIDE DEF B
  <2>3. \A i \in DOMAIN B : i \in 1 .. Len(A) \/ i = p \/ i = p + 1
    BY <1>3, <2>2
  <2>4. 1 .. Len(A) \subseteq DOMAIN B /\ p \in DOMAIN B
    BY <1>3, <2>2
  <2> QED BY <2>1, <2>2, <2>3, <2>4 DEF Keys
<1>7. k.id = n + 1 /\ k.data = Cur[j].data
  BY DEF KeyEntry
<1> HIDE DEF B, k, p
<1>8. \A i \in Keys(A) : i < p
  BY <1>3 DEF p
<1>9. Ordered(B)
  BY Regions, RegionsOrdered, <1>3, <1>5, <1>6, <1>7, <1>8, AddedKey, Zenon
<1>10. \A r \in Region : Ordered(log'[r])
  BY Regions, RegionsOrdered, <1>2, <1>9
<1>11. log'[Alt] = B
  BY Regions, <1>2
<1>12. ASSUME NEW i \in Keys(B)
       PROVE  B[i].id <= n + 1 /\ \E h \in Keys(Cur) : h <= j /\ Cur[h].data = B[i].data
  <2>1. CASE i = p
    BY Regions, <1>4, <1>6, <1>7, <2>1
  <2>2. CASE i \in Keys(A)
    <3>1. A[i].id <= n /\ \E h \in Keys(Cur) : h <= it /\ Cur[h].data = A[i].data
      BY <1>2, <2>2 DEF KeysInv
    <3>2. PICK h \in Keys(Cur) : h <= it /\ Cur[h].data = A[i].data
      BY <3>1
    <3>3. h \in Nat /\ h <= j
      BY Regions, <1>4, <3>2
    <3>4. B[i] = A[i] /\ A[i].id \in Nat
      BY <1>3, <1>6, <2>2
    <3> HIDE DEF A
    <3> QED BY Regions, <3>1, <3>2, <3>3, <3>4, SMTT(20)
  <2> QED BY <1>6, <2>1, <2>2
<1>13. kid' = 0 => kid = 0
  BY Regions, <1>1
<1>14. \A i \in Keys(log'[Alt']) :
         /\ log'[Alt'][i].id <= n'
         /\ \E h \in Keys(Cur') : h <= it' /\ Cur'[h].data = log'[Alt'][i].data
  BY <1>1, <1>2, <1>11, <1>12, Zenon
<1>15. kid' = 0 => \A i \in Keys(Cur') : Cur'[i].data # key'
  BY <1>2, <1>13, SMTT(20) DEF KeysInv
<1> QED BY <1>2, <1>10, <1>14, <1>15 DEF KeysInv

(* After the switch a key still to be written is new to the new region.    *)
LEMMA SwitchKeepsKeys ==
  ASSUME TypeOK, KeysInv, compact_header_old
  PROVE  KeysInv'
<1>1. log' = log /\ cur' = Alt /\ pc = "hdrOld"
  BY DEF compact_header_old
<1>2. CASE pc' # "keyHdr"
  <2>1. pc' \notin Busy
    BY <1>2, SMTT(20) DEF compact_header_old, Fail, Busy
  <2> QED BY NoKeyAddedKeeps, NoKeyAddedBy, <1>1, <2>1
<1>3. CASE pc' = "keyHdr"
  <2>1. kid = 0 /\ n' = n /\ key' = key
    BY <1>3, SMTT(20) DEF compact_header_old, Fail
  <2>2. Addable(log[Alt], n, key)
    BY <1>1, <2>1 DEF KeysInv, Addable
  <2>3. Cur' = log[Alt]
    BY <1>1 DEF Cur
  <2> QED BY RegionsOrdered, <1>1, <1>3, <2>1, <2>2, <2>3 DEF KeysInv
<1> QED BY <1>2, <1>3

(* An invalid key entry is no key yet.                                     *)
LEMMA KeyHeaderKeepsKeys ==
  ASSUME TypeOK, EndInv, KeysInv, key_header
  PROVE  KeysInv'
<1> DEFINE e == KeyEntry(n + 1, key, "writing")
<1>1. e \in Entry /\ ~IsKey(e)
  BY DEF KeyEntry, Entry, IsKey, TypeOK
<1> HIDE DEF e
<1>2. /\ log' = AtEnd(e)
      /\ end' = end + 1 /\ pc = "keyHdr" /\ pc' = "keyOk" /\ cur' = cur
      /\ n' = n /\ key' = key
  BY DEF key_header, write_header, e
<1>3. Cur' = log'[cur]
  BY <1>2 DEF Cur
<1>4. /\ KeysKept(Cur', Cur) /\ NoKeyAdded
      /\ Len(Cur') = end + 1 /\ Cur'[end + 1] = e
  BY AtEndKept, <1>1, <1>2, <1>3
<1>5. Addable(Cur', n', key')
  BY <1>2, <1>4 DEF KeysInv, Addable, KeysKept
<1>6. end' = Len(Cur') /\ end' > 0 /\ Cur'[end'] = e
  BY Regions, <1>2, <1>4
<1>7. e = KeyEntry(n' + 1, key', "writing")
  BY <1>2, SMTT(20) DEF e
<1> QED BY NoKeyAddedKeeps, <1>2, <1>4, <1>5, <1>6, <1>7 DEF KeysInv

(* A value entry is no key.                                                *)
LEMMA ValueHeaderKeepsKeys ==
  ASSUME TypeOK, EndInv, KeysInv, value_header
  PROVE  KeysInv'
<1> DEFINE e == ValueEntry(kid, val, "writing")
<1>1. e \in Entry /\ ~IsKey(e) /\ e.kind = "value"
  BY DEF ValueEntry, Entry, IsKey, TypeOK
<1> HIDE DEF e
<1>2. /\ log' = AtEnd(e) /\ pc = "valHdr"
      /\ end' = end + 1 /\ pc' = "valOk" /\ cur' = cur
  BY DEF value_header, write_header, e
<1>3. Cur' = log'[cur]
  BY <1>2 DEF Cur
<1>4. NoKeyAdded /\ Len(Cur') = end + 1 /\ Cur'[end + 1] = e
  BY AtEndKept, <1>1, <1>2, <1>3
<1>5. end' = Len(Cur') /\ end' > 0 /\ Cur'[end'].kind = "value"
  BY Regions, <1>1, <1>2, <1>4
<1> QED BY NoKeyAddedKeeps, <1>2, <1>4, <1>5 DEF KeysInv

(* The last entry becomes valid: a key that is new and has the highest id, *)
(* or a value.                                                             *)
LEMMA MadeValid ==
  ASSUME TypeOK, KeysInv, pc \in {"keyOk", "valOk"}, pc' \notin Busy,
         log' = [log EXCEPT ![cur][end].st = "alive"]
  PROVE  KeysInv'
<1> DEFINE M == [Cur EXCEPT ![end].st = "alive"]
<1>1. log' = [log EXCEPT ![cur] = M]
  BY Regions
<1>2. end = Len(Cur) /\ end \in 1 .. Len(Cur)
  BY Regions DEF KeysInv
<1>3. CASE pc = "valOk"
  <2>1. KeysKept(M, log[cur])
    BY Regions, <1>2, <1>3, KeptByWrites, Zenon DEF KeysInv
  <2> HIDE DEF M
  <2> QED BY Regions, NoKeyAddedKeeps, NoKeyAddedBy, <1>1, <2>1, Zenon
<1>4. CASE pc = "keyOk"
  <2>1. Cur[end] = KeyEntry(n + 1, key, "writing") /\ Addable(Cur, n, key)
    BY <1>4 DEF KeysInv
  <2>2. /\ Keys(M) = Keys(Cur) \cup {end}
        /\ M[end].id = n + 1 /\ M[end].data = key
        /\ \A i \in Keys(Cur) : M[i] = Cur[i] /\ i < end
    <3>1. DOMAIN Cur = 1 .. end /\ DOMAIN M = 1 .. end
      BY Regions, <1>2
    <3>2. M[end] = [Cur[end] EXCEPT !.st = "alive"]
      BY <1>2, <3>1
    <3>3. M[end] = KeyEntry(n + 1, key, "alive")
      BY <2>1, <3>2 DEF KeyEntry
    <3>4. \A i \in 1 .. end : i # end => M[i] = Cur[i]
      BY <3>1
    <3> HIDE DEF M
    <3>5. end \notin Keys(Cur) /\ end \in Keys(M)
      BY <1>2, <2>1, <3>1, <3>3 DEF Keys, IsKey, KeyEntry
    <3>6. \A i \in 1 .. end : i # end => (i \in Keys(M) <=> i \in Keys(Cur))
      BY <3>1, <3>4 DEF Keys
    <3>7. Keys(M) \subseteq 1 .. end /\ Keys(Cur) \subseteq 1 .. end
      BY <3>1 DEF Keys
    <3>8. Keys(M) = Keys(Cur) \cup {end}
      BY <3>5, <3>6, <3>7
    <3>9. \A i \in Keys(Cur) : M[i] = Cur[i] /\ i < end
      BY Regions, <3>4, <3>5, <3>7, SMTT(20)
    <3> QED BY <3>3, <3>8, <3>9 DEF KeyEntry
  <2> HIDE DEF M
  <2>3. Ordered(M)
    <3>1. Cur \in Seq(Entry) /\ n \in Nat /\ end \in Nat /\ Ordered(Cur)
      BY Regions, RegionsOrdered
    <3> QED BY ONLY <3>1, <2>1, <2>2, AddedKey
  <2>4. \A r \in Region : Ordered(log'[r])
    BY Regions, RegionsOrdered, <1>1, <2>3, Zenon
  <2> QED BY <2>4 DEF KeysInv, Busy
<1> QED BY <1>3, <1>4

(* Deleting the old value adds no key.                                     *)
LEMMA DeletedKept ==
  ASSUME TypeOK, log' = [log EXCEPT ![OldRegion][old].st = "dead"]
  PROVE  NoKeyAdded
<1>1. OldRegion \in Region
  BY Regions DEF OldRegion
<1>2. KeysKept([log[OldRegion] EXCEPT ![old].st = "dead"], log[OldRegion])
  BY Regions, <1>1, KeptByWrites, Zenon
<1>3. log' = [log EXCEPT ![OldRegion] = [log[OldRegion] EXCEPT ![old].st = "dead"]]
  BY Regions
<1> QED BY NoKeyAddedBy, <1>1, <1>2, <1>3, Zenon

(* The writes of a set call keep keys in order.                            *)
LEMMA WritesKeepKeys ==
  ASSUME TypeOK, EndInv, KeysInv, set_writes
  PROVE  KeysInv'
<1>1. CASE key_valid
  BY MadeValid, <1>1 DEF key_valid, Busy
<1>2. CASE value_valid
  BY MadeValid, <1>2 DEF value_valid, Succeed, Busy
<1>3. CASE write_over_left
  <2>1. Junk("zero") \in Entry /\ ~IsKey(Junk("zero"))
    BY DEF Junk, Entry, IsKey
  <2>2. NoKeyAdded
    BY <1>3, <2>1, AtEndKept DEF write_over_left
  <2>3. pc' \notin Busy
    BY <1>3 DEF write_over_left, Fail, Busy
  <2> QED BY NoKeyAddedKeeps, <2>2, <2>3
<1>4. CASE delete_old
  BY <1>4, DeletedKept, NoKeyAddedKeeps DEF delete_old, Succeed, Busy
<1> QED
  BY <1>1, <1>2, <1>3, <1>4, KeyHeaderKeepsKeys, ValueHeaderKeepsKeys, Zenon DEF set_writes

(* So do the calls up to their first write.                                *)
LEMMA CallsKeepKeys ==
  ASSUME TypeOK, KeysInv, Call
  PROVE  KeysInv'
<1>1. CASE reformat \/ call_noinit
  BY NoKeyAddedKeeps, NoKeyAddedBy, <1>1 DEF reformat, call_noinit, flashVars, Busy
<1>2. ASSUME NEW k \in Key,
              \/ get(k) \/ set_delete(k)
              \/ \E v \in Val \cup {None} : set_nothing_to_do(k, v) \/ set_full(k, v)
       PROVE  KeysInv'
  <2>1. UNCHANGED log /\ pc' \notin Busy
    BY <1>2, Zenon DEF get, set_delete, set_nothing_to_do, set_full, flashVars, Busy
  <2> QED BY NoKeyAddedKeeps, NoKeyAddedBy, <2>1
<1>3. ASSUME NEW k \in Key, NEW v \in Val, set_compact(k, v) PROVE KeysInv'
  <2>1. UNCHANGED <<log, cur>> /\ pc' = "erase" /\ key' = k /\ kid' = KeyId(k)
    BY <1>3 DEF set_compact, flashVars
  <2>2. KeyId(k) = 0 => \A i \in Keys(Cur) : Cur[i].data # k
    <3>1. /\ KeyAt(k) # 0 => KeyAt(k) \in Keys(Cur)
          /\ KeyAt(k) = 0 => \A i \in Keys(Cur) : Cur[i].data # k
      BY Regions, FindKey, Zenon DEF KeyAt
    <3>2. \A i \in Keys(Cur) : Cur[i].id # 0
      <4>1. \A i \in Keys(Cur) : Cur[i].id > 0
        BY Regions, RegionsOrdered, Zenon DEF Ordered
      <4>2. \A i \in Keys(Cur) : Cur[i].id \in Nat
        BY Regions, KeysType, Zenon
      <4> QED BY <4>1, <4>2
    <3> QED BY <3>1, <3>2, Zenon DEF KeyId
  <2>3. Cur' = Cur
    BY <2>1, SMTT(20) DEF Cur
  <2> QED BY RegionsOrdered, <2>1, <2>2, <2>3 DEF KeysInv
<1>4. ASSUME NEW k \in Key, NEW v \in Val, set_append(k, v) PROVE KeysInv'
  <2>1. /\ UNCHANGED <<log, cur>> /\ key' = k /\ n' = max_key_id(Cur)
        /\ pc' = IF KeyAt(k) = 0 THEN "keyHdr" ELSE "valHdr"
    BY <1>4 DEF set_append, flashVars, ramVars
  <2>2. KeyAt(k) = 0 => Addable(Cur, max_key_id(Cur), k)
    BY Regions, RegionsOrdered, FindKey, MaxKeyIdIsGreatest DEF KeyAt, Addable
  <2>3. Cur' = Cur
    BY <2>1 DEF Cur
  <2> QED BY RegionsOrdered, <2>1, <2>2, <2>3 DEF KeysInv
<1> QED
  BY <1>1, <1>2, <1>3, <1>4, Zenon DEF Call

(* So do failing flash operations and power cuts.                          *)
LEMMA FaultsKeepKeys ==
  ASSUME TypeOK, EndInv, KeysInv, Fault
  PROVE  KeysInv'
<1>1. CASE entry_header_fails
  <2>1. \A e \in {Junk("zero"), Junk("garbage"), NewHeader} : e \in Entry /\ ~IsKey(e)
    BY NewHeaderType DEF Junk, Entry, IsKey
  <2>2. \/ UNCHANGED log
        \/ \E e \in {Junk("zero"), Junk("garbage"), NewHeader} : log' = AtEnd(e)
    BY <1>1, Zenon DEF entry_header_fails
  <2>3. pc \in {"keyHdr", "valHdr"} /\ pc' \notin Busy
    BY <1>1 DEF entry_header_fails, Fail, Busy
  <2>4. NoKeyAdded
    BY NoKeyAddedBy, AtEndKept, <2>1, <2>2, <2>3, Zenon
  <2> QED BY NoKeyAddedKeeps, <2>3, <2>4
<1>2. CASE entry_valid_fails
  BY NoKeyAddedKeeps, NoKeyAddedBy, MadeValid, <1>2 DEF entry_valid_fails, Fail, Busy
<1>del. CASE delete_fails
  <2>1. NoKeyAdded
    BY <1>del, NoKeyAddedBy, DeletedKept, Zenon DEF delete_fails
  <2>2. pc' \notin Busy
    BY <1>del DEF delete_fails, Fail, Busy
  <2> QED BY NoKeyAddedKeeps, <2>1, <2>2
<1>3. CASE compact_fails \/ compact_header_fails \/ area_fails \/ power_cut
  <2>1. UNCHANGED log /\ pc' \notin Busy
    BY <1>3 DEF compact_fails, compact_header_fails, area_fails, power_cut, Fail,
      flashVars, Busy
  <2> QED BY NoKeyAddedKeeps, NoKeyAddedBy, <2>1, SMTT(20)
<1> QED
  BY <1>1, <1>2, <1>del, <1>3, Zenon DEF Fault

(* Every step keeps KeysInv.                                               *)
LEMMA KeysStep ==
  TypeOK /\ EndInv /\ KeysInv /\ [Next]_vars => KeysInv'
<1> SUFFICES ASSUME TypeOK, EndInv, KeysInv, [Next]_vars PROVE KeysInv'
  OBVIOUS
<1>1. CASE compact_header_new
  BY <1>1 DEF compact_header_new, ramVars, callVars, KeysInv, Cur, Alt
<1>2. CASE UNCHANGED vars
  BY <1>2 DEF vars, KeysInv, Cur, Alt
<1> QED
  BY <1>1, <1>2, BootKeepsKeys, EraseKeepsKeys, CopyKeepsKeys, SwitchKeepsKeys,
     WritesKeepKeys, CallsKeepKeys, FaultsKeepKeys, Zenon
  DEF Next, Step, compact_params

(* In the mounted region valid keys have increasing ids and different      *)
(* names, however often it was compacted, cut short or written in part.    *)
THEOREM KeysStayOrdered == Spec => []KeysOrdered
<1>1. Init => KeysInv
  <2>1. ASSUME Init PROVE \A r \in Region : log[r] = <<>>
    BY <2>1 DEF Init
  <2>2. Keys(<<>>) = {}
    BY SMTT(20) DEF Keys
  <2> QED BY <2>1, <2>2 DEF Init, KeysInv, Ordered
<1>2. TypeOK /\ KeysInv => KeysOrdered
  BY DEF TypeOK, KeysInv, KeysOrdered, Ordered, Cur
<1> QED
  BY <1>1, <1>2, TypeAndEnd, KeysStep, PTL DEF Spec
=============================================================================
