---------------------------- MODULE UseFileProofs ---------------------------
(***************************************************************************)
(* Proofs about the library loader (module UseFile), for every set of       *)
(* files, every program and every depth: the recursion guard names exactly  *)
(* the loads in progress, and every step of the loader is a step of         *)
(* LoadOnce or changes nothing LoadOnce sees.                              *)
(***************************************************************************)
EXTENDS UseFile, SequenceTheorems, TLAPS

(* The inductive invariant: a file whose guard is set was entered.          *)
LoaderInv ==
  /\ TypeOK
  /\ GuardMatchesLoads
  /\ includeStack \subseteq includeLoaded

(* The basenames of the loads in progress, as LoadOnce sees them.           *)
Loading == [i \in DOMAIN loads |-> BaseOf[loads[i].name]]

-----------------------------------------------------------------------------
(* The stack of loads                                                      *)

(* The running file is the last load, and it is one of the requests.        *)
LEMMA LoadsTyped ==
  ASSUME LoaderInv
  PROVE  /\ loads \in Seq(Load) /\ Len(loads) \in Nat
         /\ DOMAIN loads = 1..Len(loads)
         /\ \A i \in DOMAIN loads : loads[i] \in Load
         /\ Running => Len(loads) \in DOMAIN loads
<1>1. loads \in Seq(Load)
  BY DEF LoaderInv, TypeOK
<1>2. Len(loads) \in Nat /\ DOMAIN loads = 1..Len(loads)
  BY <1>1, LenProperties
<1>3. \A i \in DOMAIN loads : loads[i] \in Load
  BY <1>1, <1>2, ElementOfSeq
<1>4. Running => Len(loads) \in DOMAIN loads
  BY <1>1, <1>2, EmptySeq DEF Running
<1> QED
  BY <1>1, <1>2, <1>3, <1>4

(* Moving to a file's next statement changes no load's name.                *)
LEMMA RestKeepsNames ==
  ASSUME LoaderInv
  PROVE  /\ Rest \in Seq(Load) /\ Len(Rest) = Len(loads)
         /\ \A i \in DOMAIN loads : Rest[i].name = loads[i].name
         /\ Running => Rest = Advanced
<1>1. CASE ~Running
  BY <1>1, LoadsTyped DEF Rest
<1>2. CASE Running
  <2> DEFINE last == Len(loads)
             next == [loads[last] EXCEPT !.pc = @ + 1]
  <2>1. last \in 1..Len(loads) /\ loads[last] \in Load
    BY <1>2, LoadsTyped
  <2>2. next \in Load /\ next.name = loads[last].name
    BY <2>1 DEF Load
  <2>3. Rest = [loads EXCEPT ![last] = next]
    BY <1>2, <2>1 DEF Rest, Advanced
  <2>4. loads \in Seq(Load)
    BY LoadsTyped
  <2> HIDE DEF next, last
  <2>5. /\ Rest \in Seq(Load) /\ Len(Rest) = Len(loads)
        /\ \A j \in 1..Len(loads) : Rest[j] = IF j = last THEN next ELSE loads[j]
    BY <2>1, <2>2, <2>3, <2>4, ExceptSeq
  <2> QED
    BY <1>2, <2>2, <2>5, LoadsTyped DEF Rest
<1> QED
  BY <1>1, <1>2

(* What LoadOnce sees is a sequence of basenames.                          *)
LEMMA LoadingTyped ==
  ASSUME LoaderInv
  PROVE  /\ Loading \in Seq(Basename) /\ Len(Loading) = Len(loads)
         /\ \A i \in 1..Len(loads) : Loading[i] = BaseOf[loads[i].name]
<1>1. \A i \in 1..Len(loads) : BaseOf[loads[i].name] \in Basename
  BY LoadsTyped, UseFileAssumption DEF Load
<1>2. Loading \in [1..Len(loads) -> Basename]
  BY <1>1, LoadsTyped DEF Loading
<1>3. Loading \in Seq(Basename)
  BY <1>2, LoadsTyped
<1> QED
  BY <1>2, <1>3, LoadsTyped, LenProperties DEF Loading

(* A step that names the same loads in the same order shows LoadOnce the    *)
(* same sequence.                                                          *)
LEMMA SameNamesSameLoading ==
  ASSUME LoaderInv, loads' \in Seq(Load), Len(loads') = Len(loads),
         \A i \in DOMAIN loads : loads'[i].name = loads[i].name
  PROVE  DOMAIN loads' = DOMAIN loads /\ Loading' = Loading
<1>1. DOMAIN loads' = DOMAIN loads
  BY LoadsTyped, LenProperties
<1> QED
  BY <1>1 DEF Loading

-----------------------------------------------------------------------------
(* The steps of the loader                                                 *)

(* GuardMatchesLoads, in the terms of LoadOnce.                            *)
LEMMA GuardNamesLoading ==
  ASSUME LoaderInv
  PROVE  /\ includeStack = {Loading[i] : i \in 1..Len(loads)}
         /\ \A i, j \in 1..Len(loads) : Loading[i] = Loading[j] => i = j
<1>1. /\ includeStack = {BaseOf[loads[i].name] : i \in 1..Len(loads)}
      /\ \A i, j \in 1..Len(loads) :
           BaseOf[loads[i].name] = BaseOf[loads[j].name] => i = j
  BY LoadsTyped DEF LoaderInv, GuardMatchesLoads
<1> QED
  BY <1>1, LoadingTyped

(* A load that begins is one more for LoadOnce, under a fresh basename.     *)
LEMMA BeginStep ==
  ASSUME LoaderInv, NEW r \in Request, Begin(r)
  PROVE  /\ BaseOf[r] \in Basename
         /\ BaseOf[r] \notin includeStack \cup includeLoaded
         /\ loads' \in Seq(Load) /\ Len(loads') = Len(loads) + 1
         /\ \A i \in 1..Len(loads) : loads'[i].name = loads[i].name
         /\ loads'[Len(loads) + 1].name = r
         /\ Loading' = Append(Loading, BaseOf[r])
<1> DEFINE load == [name |-> r, pc |-> 1]
<1>1. /\ BaseOf[r] \in Basename
      /\ BaseOf[r] \notin includeStack \cup includeLoaded
  BY UseFileAssumption DEF Begin, Cached
<1>2. load \in Load /\ load.name = r
  BY DEF Load
<1>3. loads' = Append(Rest, load) /\ Rest \in Seq(Load)
  BY RestKeepsNames DEF Begin
<1> HIDE DEF load
<1>4. /\ loads' \in Seq(Load) /\ Len(loads') = Len(loads) + 1
      /\ \A i \in 1..Len(loads) : loads'[i] = Rest[i]
      /\ loads'[Len(loads) + 1] = load
  BY <1>2, <1>3, RestKeepsNames, AppendProperties
<1>5. \A i \in 1..Len(loads) : loads'[i].name = loads[i].name
  BY <1>4, RestKeepsNames, LoadsTyped
<1>6. loads'[Len(loads) + 1].name = r
  BY <1>2, <1>4
<1>7. Loading' = Append(Loading, BaseOf[r])
  <2>1. DOMAIN loads' = 1..(Len(loads) + 1)
    BY <1>4, LenProperties
  <2>2. /\ Append(Loading, BaseOf[r]) \in Seq(Basename)
        /\ Len(Append(Loading, BaseOf[r])) = Len(loads) + 1
        /\ \A i \in 1..Len(loads) :
             Append(Loading, BaseOf[r])[i] = BaseOf[loads[i].name]
        /\ Append(Loading, BaseOf[r])[Len(loads) + 1] = BaseOf[r]
    BY <1>1, LoadingTyped, AppendProperties
  <2>3. DOMAIN Append(Loading, BaseOf[r]) = 1..(Len(loads) + 1)
    BY <2>2, LenProperties
  <2>4. \A i \in 1..(Len(loads) + 1) :
          BaseOf[loads'[i].name] = Append(Loading, BaseOf[r])[i]
    BY <1>5, <1>6, <2>2, LoadsTyped
  <2>5. Loading' = [i \in 1..(Len(loads) + 1) |-> BaseOf[loads'[i].name]]
    BY <2>1 DEF Loading
  <2>6. Append(Loading, BaseOf[r]) =
          [i \in 1..(Len(loads) + 1) |-> Append(Loading, BaseOf[r])[i]]
    BY <2>2, <2>3, LenProperties
  <2> QED
    BY <2>4, <2>5, <2>6
<1> QED
  BY <1>1, <1>4, <1>5, <1>6, <1>7

(* A load that ends is LoadOnce's innermost one.                           *)
LEMMA EndStep ==
  ASSUME LoaderInv, End
  PROVE  /\ Len(loads) \in Nat \ {0}
         /\ loads' \in Seq(Load) /\ Len(loads') = Len(loads) - 1
         /\ \A i \in 1..(Len(loads) - 1) : loads'[i] = loads[i]
         /\ Loading' = SubSeq(Loading, 1, Len(Loading) - 1)
         /\ includeStack' = includeStack \ {Loading[Len(loads)]}
<1> DEFINE last == Len(loads)
<1>1. last \in Nat \ {0} /\ loads \in Seq(Load) /\ last \in 1..last
  BY LoadsTyped DEF End
<1>2. loads' = SubSeq(loads, 1, last - 1)
  BY DEF End
<1>3. /\ \A i \in 1..(last - 1) : loads[i] \in Load /\ Loading[i] \in Basename
      /\ last - 1 \in Nat /\ (last - 1) - 1 + 1 = last - 1
      /\ \A i \in 1..(last - 1) : 1 + i - 1 = i
  BY <1>1, LoadsTyped, LoadingTyped, ElementOfSeq
<1>4. /\ loads' \in Seq(Load)
      /\ Len(loads') = IF 1 <= last - 1 THEN (last - 1) - 1 + 1 ELSE 0
      /\ \A i \in 1..((last - 1) - 1 + 1) : loads'[i] = loads[1 + i - 1]
  BY <1>1, <1>2, <1>3, SubSeqProperties
<1>5. /\ SubSeq(Loading, 1, last - 1) \in Seq(Basename)
      /\ Len(SubSeq(Loading, 1, last - 1)) =
           IF 1 <= last - 1 THEN (last - 1) - 1 + 1 ELSE 0
      /\ \A i \in 1..((last - 1) - 1 + 1) :
           SubSeq(Loading, 1, last - 1)[i] = Loading[1 + i - 1]
  BY <1>1, <1>3, SubSeqProperties
<1>6. includeStack' = includeStack \ {Loading[last]}
  <2>1. Innermost = loads[last]
    BY DEF Innermost
  <2>2. Loading[last] = BaseOf[loads[last].name]
    BY <1>1, LoadingTyped
  <2> QED
    BY <2>1, <2>2 DEF End
<1>7. Len(Loading) = last
  BY LoadingTyped
<1> HIDE DEF last
<1>8. /\ Len(loads') = last - 1
      /\ \A i \in 1..(last - 1) : loads'[i] = loads[i]
  BY <1>1, <1>3, <1>4
<1>9. /\ Len(SubSeq(Loading, 1, last - 1)) = last - 1
      /\ \A i \in 1..(last - 1) : SubSeq(Loading, 1, last - 1)[i] = Loading[i]
  BY <1>1, <1>3, <1>5
<1>10. Loading' = SubSeq(Loading, 1, last - 1)
  <2>1. DOMAIN loads' = 1..(last - 1)
    BY <1>4, <1>8, LenProperties
  <2>2. SubSeq(Loading, 1, last - 1) =
          [i \in 1..(last - 1) |-> SubSeq(Loading, 1, last - 1)[i]]
    BY <1>5, <1>9, LenProperties
  <2>3. \A i \in 1..(last - 1) :
          BaseOf[loads'[i].name] = SubSeq(Loading, 1, last - 1)[i]
    BY <1>1, <1>8, <1>9, LoadingTyped DEF last
  <2>4. Loading' = [i \in 1..(last - 1) |-> BaseOf[loads'[i].name]]
    BY <2>1 DEF Loading
  <2> QED
    BY <2>2, <2>3, <2>4
<1> QED
  BY <1>1, <1>4, <1>6, <1>7, <1>8, <1>10 DEF last

(* The steps in which no load begins or ends keep what LoadOnce sees.       *)
LEMMA OtherStep ==
  ASSUME LoaderInv,
         \/ \E r \in Request : Skip(r) \/ NotFound(r)
         \/ Evaluate \/ Handle \/ Repair \/ UNCHANGED vars
  PROVE  /\ loads' \in Seq(Load) /\ Len(loads') = Len(loads)
         /\ \A i \in DOMAIN loads : loads'[i].name = loads[i].name
         /\ UNCHANGED engineVars
<1>1. CASE \E r \in Request : Skip(r) \/ NotFound(r)
  BY <1>1, RestKeepsNames DEF Skip, NotFound
<1>2. CASE Evaluate
  BY <1>2, RestKeepsNames DEF Evaluate
<1>3. CASE Handle \/ Repair \/ UNCHANGED vars
  BY <1>3, LoadsTyped DEF Handle, Repair, vars
<1> QED
  BY <1>1, <1>2, <1>3

-----------------------------------------------------------------------------
(* The invariant                                                           *)

(* A session starts with no load in progress.                              *)
LEMMA InitLoader == Init => LoaderInv
<1> SUFFICES ASSUME Init PROVE LoaderInv
  OBVIOUS
<1>1. loads \in Seq(Load) /\ DOMAIN loads = {}
  BY EmptySeq DEF Init
<1>2. TypeOK
  <2>1. requests \in 0..MaxRequests
    BY UseFileAssumption DEF Init
  <2> QED
    BY <1>1, <2>1 DEF Init, TypeOK
<1>3. GuardMatchesLoads /\ includeStack \subseteq includeLoaded
  BY <1>1 DEF Init, GuardMatchesLoads
<1> QED
  BY <1>2, <1>3 DEF LoaderInv

(* The types of what is not the stack of loads are kept by every step.      *)
LEMMA RestTyped ==
  ASSUME LoaderInv, [Next]_vars
  PROVE  /\ includeStack' \subseteq Basename /\ includeLoaded' \subseteq Basename
         /\ raising' \in BOOLEAN
         /\ missing' \subseteq Request /\ broken' \subseteq Request
         /\ requests' \in 0..MaxRequests /\ completed' \subseteq Request
<1> USE DEF LoaderInv, TypeOK
<1>1. ASSUME NEW r \in Request, Uses(r, Rest)
      PROVE  requests' \in 0..MaxRequests
  BY <1>1, UseFileAssumption DEF Uses
<1>2. CASE \E r \in Request : Skip(r) \/ NotFound(r)
  BY <1>1, <1>2 DEF Skip, NotFound, engineVars, diskVars
<1>3. CASE \E r \in Request : Begin(r)
  BY <1>1, <1>3, UseFileAssumption DEF Begin, diskVars
<1>4. CASE Evaluate
  BY <1>4 DEF Evaluate, engineVars, diskVars
<1>5. CASE End
  <2>1. Innermost.name \in Request
    BY <1>5, LoadsTyped DEF End, Innermost, Load
  <2> QED
    BY <1>5, <2>1 DEF End, diskVars
<1>6. CASE Handle \/ Repair \/ UNCHANGED vars
  BY <1>6 DEF Handle, Repair, vars, engineVars, diskVars
<1> QED
  BY <1>2, <1>3, <1>4, <1>5, <1>6 DEF Next

(* Every step keeps the guard equal to the loads in progress: the begin of  *)
(* a load adds a basename no load has, its end removes that one only.       *)
LEMMA LoaderInvKept ==
  ASSUME LoaderInv, [Next]_vars
  PROVE  LoaderInv'
<1>1. ASSUME loads' \in Seq(Load), GuardMatchesLoads',
             includeStack' \subseteq includeLoaded'
      PROVE  LoaderInv'
  BY <1>1, RestTyped DEF LoaderInv, TypeOK
<1>2. includeStack \subseteq includeLoaded /\ GuardMatchesLoads
  BY DEF LoaderInv
<1>3. CASE \E r \in Request : Begin(r)
  <2>1. PICK r \in Request : Begin(r)
    BY <1>3
  <2> DEFINE n == Len(loads)
             b == BaseOf[r]
  <2>2. /\ b \notin includeStack
        /\ loads' \in Seq(Load) /\ Len(loads') = n + 1
        /\ \A i \in 1..n : loads'[i].name = loads[i].name
        /\ loads'[n + 1].name = r
    BY <2>1, BeginStep
  <2>3. /\ includeStack' = includeStack \cup {b}
        /\ includeLoaded' = includeLoaded \cup {b}
    BY <2>1 DEF Begin
  <2>4. DOMAIN loads' = 1..(n + 1) /\ DOMAIN loads = 1..n /\ n \in Nat
    BY <2>2, LoadsTyped, LenProperties
  <2>5. /\ includeStack = {BaseOf[loads[i].name] : i \in 1..n}
        /\ \A i, j \in 1..n :
             BaseOf[loads[i].name] = BaseOf[loads[j].name] => i = j
    BY <1>2, <2>4 DEF GuardMatchesLoads
  <2> HIDE DEF n, b
  <2>6. includeStack' = {BaseOf[loads'[i].name] : i \in 1..(n + 1)}
    <3>1. \A i \in 1..n : i \in 1..(n + 1)
      BY <2>4
    <3>2. n + 1 \in 1..(n + 1) /\ \A i \in 1..(n + 1) : i \in 1..n \/ i = n + 1
      BY <2>4
    <3>3. BaseOf[loads'[n + 1].name] = b
      BY <2>2 DEF b
    <3> QED
      BY <2>2, <2>3, <2>5, <3>1, <3>2, <3>3
  <2>7. \A i, j \in 1..(n + 1) :
          BaseOf[loads'[i].name] = BaseOf[loads'[j].name] => i = j
    <3>1. \A i \in 1..(n + 1) : i \in 1..n \/ i = n + 1
      BY <2>4
    <3>2. \A i \in 1..n : BaseOf[loads'[i].name] # BaseOf[loads'[n + 1].name]
      BY <2>2, <2>5 DEF b
    <3> QED
      BY <2>2, <2>5, <3>1, <3>2
  <2>8. GuardMatchesLoads'
    BY <2>4, <2>6, <2>7 DEF GuardMatchesLoads
  <2> QED
    BY <1>1, <1>2, <2>2, <2>3, <2>8
<1>4. CASE End
  <2> DEFINE n == Len(loads)
  <2>1. /\ n \in Nat \ {0}
        /\ loads' \in Seq(Load) /\ Len(loads') = n - 1
        /\ \A i \in 1..(n - 1) : loads'[i] = loads[i]
        /\ includeStack' = includeStack \ {Loading[n]}
        /\ UNCHANGED includeLoaded
    BY <1>4, EndStep DEF End
  <2>2. /\ includeStack = {BaseOf[loads[i].name] : i \in 1..n}
        /\ \A i, j \in 1..n :
             BaseOf[loads[i].name] = BaseOf[loads[j].name] => i = j
    BY <1>2, LoadsTyped DEF GuardMatchesLoads
  <2>3. Loading[n] = BaseOf[loads[n].name] /\ DOMAIN loads' = 1..(n - 1)
    BY <2>1, LoadingTyped, LenProperties
  <2> HIDE DEF n
  <2>4. /\ \A i \in 1..n : i \in 1..(n - 1) \/ i = n
        /\ n \in 1..n /\ \A i \in 1..(n - 1) : i \in 1..n /\ i # n
    BY <2>1
  <2>5. includeStack' = {BaseOf[loads'[i].name] : i \in 1..(n - 1)}
    BY <2>1, <2>2, <2>3, <2>4
  <2>6. GuardMatchesLoads'
    BY <2>1, <2>2, <2>3, <2>4, <2>5 DEF GuardMatchesLoads
  <2> QED
    BY <1>1, <1>2, <2>1, <2>6
<1>5. CASE \/ \E r \in Request : Skip(r) \/ NotFound(r)
           \/ Evaluate \/ Handle \/ Repair \/ UNCHANGED vars
  <2>1. /\ loads' \in Seq(Load) /\ Len(loads') = Len(loads)
        /\ \A i \in DOMAIN loads : loads'[i].name = loads[i].name
        /\ UNCHANGED <<includeStack, includeLoaded>>
    BY <1>5, OtherStep DEF engineVars
  <2>2. DOMAIN loads' = DOMAIN loads
    BY <2>1, SameNamesSameLoading
  <2>3. GuardMatchesLoads'
    BY <1>2, <2>1, <2>2 DEF GuardMatchesLoads
  <2> QED
    BY <1>1, <1>2, <2>1, <2>3
<1> QED
  BY <1>3, <1>4, <1>5 DEF Next

-----------------------------------------------------------------------------
(* The theorems                                                            *)

(* The loader never leaves its invariant.                                  *)
THEOREM LoaderInvariant == Spec => []LoaderInv
<1>1. LoaderInv /\ [Next]_vars => LoaderInv'
  BY LoaderInvKept
<1> QED
  BY <1>1, InitLoader, PTL DEF Spec

(* Every variable of the loader keeps its type.                            *)
THEOREM LoaderTypes == Spec => []TypeOK
<1>1. LoaderInv => TypeOK
  BY DEF LoaderInv
<1> QED
  BY <1>1, LoaderInvariant, PTL

(* IncludeGuard: on every path out of a load, by value or error, the        *)
(* recursion guard holds the files being loaded, each loading once.        *)
THEOREM GuardIsExact == Spec => []GuardMatchesLoads
<1>1. LoaderInv => GuardMatchesLoads
  BY DEF LoaderInv
<1> QED
  BY <1>1, LoaderInvariant, PTL

(* The safety part of ImplementsLoadOnce: use_file enters a file only if it *)
(* was never entered, inside the load that uses it, and loads end innermost *)
(* first.                                                                  *)
THEOREM LoaderRefinesLoadOnce ==
  Spec => Abstract!Init /\ [][Abstract!Next]_(Abstract!vars)
<1>1. Init => Abstract!Init
  <2> SUFFICES ASSUME Init PROVE Abstract!Init
    OBVIOUS
  <2>1. loads = <<>> /\ DOMAIN loads = {} /\ includeStack = {} /\ includeLoaded = {}
    BY DEF Init
  <2>2. [i \in DOMAIN loads |-> BaseOf[loads[i].name]] = <<>>
    BY <2>1
  <2> QED
    BY <2>1, <2>2 DEF Abstract!Init
<1>2. ASSUME LoaderInv, [Next]_vars
      PROVE  [Abstract!Next]_(Abstract!vars)
  <2> DEFINE done == includeLoaded \ includeStack
  <2>1. /\ includeStack = {Loading[i] : i \in 1..Len(loads)}
        /\ \A i \in 1..Len(loads) : Loading[i] \in includeStack
        /\ includeStack \subseteq includeLoaded
    BY <1>2, GuardNamesLoading DEF LoaderInv
  <2>2. DOMAIN Loading = 1..Len(loads) /\ Len(Loading) = Len(loads)
    BY <1>2, LoadsTyped, LoadingTyped DEF Loading
  <2>3. CASE \E r \in Request : Begin(r)
    <3>1. PICK r \in Request : Begin(r)
      BY <2>3
    <3>2. /\ BaseOf[r] \in Basename
          /\ BaseOf[r] \notin includeStack \cup includeLoaded
          /\ Loading' = Append(Loading, BaseOf[r])
      BY <1>2, <3>1, BeginStep
    <3>3. done' = done
      BY <3>1, <3>2 DEF Begin
    <3>4. BaseOf[r] \notin {Loading[i] : i \in DOMAIN Loading} \cup done
      BY <2>1, <2>2, <3>2
    <3>5. Abstract!Begin(BaseOf[r])
      BY <3>2, <3>3, <3>4 DEF Abstract!Begin, Abstract!InProgress, Loading
    <3> QED
      BY <3>2, <3>5 DEF Abstract!Next
  <2>4. CASE End
    <3>1. /\ Len(loads) \in Nat \ {0}
          /\ Loading' = SubSeq(Loading, 1, Len(Loading) - 1)
          /\ includeStack' = includeStack \ {Loading[Len(loads)]}
          /\ UNCHANGED includeLoaded
      BY <1>2, <2>4, EndStep DEF End
    <3>2. Loading[Len(Loading)] \in includeStack
      BY <2>1, <2>2, <3>1
    <3>3. done' = done \cup {Loading[Len(Loading)]}
      BY <2>1, <2>2, <3>1, <3>2
    <3>4. Loading # <<>>
      BY <2>2, <3>1
    <3>5. Abstract!End
      BY <3>1, <3>3, <3>4 DEF Abstract!End, Loading
    <3> QED
      BY <3>5 DEF Abstract!Next
  <2>5. CASE \/ \E r \in Request : Skip(r) \/ NotFound(r)
             \/ Evaluate \/ Handle \/ Repair \/ UNCHANGED vars
    <3>1. /\ loads' \in Seq(Load) /\ Len(loads') = Len(loads)
          /\ \A i \in DOMAIN loads : loads'[i].name = loads[i].name
          /\ UNCHANGED <<includeStack, includeLoaded>>
      BY <1>2, <2>5, OtherStep DEF engineVars
    <3>2. Loading' = Loading
      BY <1>2, <3>1, SameNamesSameLoading
    <3> QED
      BY <3>1, <3>2 DEF Abstract!vars, Loading
  <2> QED
    BY <1>2, <2>3, <2>4, <2>5 DEF Next
<1> QED
  BY <1>1, <1>2, LoaderInvariant, PTL DEF Spec

=============================================================================
