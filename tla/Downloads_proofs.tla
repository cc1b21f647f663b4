-------------------------- MODULE Downloads_proofs --------------------------
(***************************************************************************)
(* Theorems about Downloads, for every tree of files and folders, every     *)
(* selection and every order of the rows and of a listing.                  *)
(***************************************************************************)
EXTENDS Downloads, FiniteSetTheorems, SequenceTheorems, TLAPS

\* An order of a finite set is a sequence of all it holds.
LEMMA Orders ==
    ASSUME NEW S, IsFiniteSet(S), NEW s \in SetToSeqs(S)
    PROVE  /\ s \in Seq(S) /\ (\A x \in S : \E n \in DOMAIN s : s[n] = x) /\ (S # {} => s # <<>>)
           /\ \A m, n \in DOMAIN s : m # n => s[m] # s[n]
<1>1. Cardinality(S) \in Nat
  BY FS_CardinalityType
<1>2. s \in Injection(1..Cardinality(S), S)
  BY DEF SetToSeqs, Injection, IsInjective
<1>3. Cardinality(1..Cardinality(S)) = Cardinality(S)
  BY <1>1, FS_Interval
<1>4. s \in Surjection(1..Cardinality(S), S)
  BY <1>2, <1>3, FS_Injection
<1>5. s \in Seq(S)
  BY <1>1, <1>2 DEF Injection
<1>6. \A x \in S : \E n \in DOMAIN s : s[n] = x
  BY <1>4 DEF Surjection
<1>7. \A m, n \in DOMAIN s : m # n => s[m] # s[n]
  BY <1>2 DEF Injection, IsInjective
<1> QED
  BY <1>5, <1>6, <1>7

\* What is left of a sequence.
LEMMA Tails ==
    ASSUME NEW S, NEW s \in Seq(S), s # <<>>, Len(s) # 1
    PROVE  Tail(s) \in Seq(S) /\ Tail(s) # <<>> /\ \A n \in DOMAIN Tail(s) : Tail(s)[n] = s[n + 1]
<1>1. Len(s) \in Nat \ {0}
  BY EmptySeq
<1>2. /\ Tail(s) \in Seq(S) /\ Len(Tail(s)) = Len(s) - 1
      /\ \A n \in 1..Len(Tail(s)) : Tail(s)[n] = s[n + 1]
  BY HeadTailProperties
<1>3. Tail(s) # <<>>
  <2>1. Len(Tail(s)) # 0
    BY <1>1, <1>2
  <2>2. Len(<<>>) = 0
    BY EmptySeq
  <2> QED
    BY <2>1, <2>2, Zenon
<1> QED
  BY <1>2, <1>3, LenProperties

\* What takes the place of the first of a sequence leaves the others there.
Joined(s, t) == s \o Tail(t)

LEMMA Joins ==
    ASSUME NEW S, NEW s \in Seq(S), NEW t \in Seq(S), t # <<>>
    PROVE  /\ Joined(s, t) \in Seq(S) /\ (s # <<>> => Joined(s, t) # <<>>)
           /\ \A n \in DOMAIN s : n \in DOMAIN Joined(s, t) /\ Joined(s, t)[n] = s[n]
           /\ \A n \in DOMAIN t : n # 1 => \E k \in DOMAIN Joined(s, t) : Joined(s, t)[k] = t[n]
           /\ \A k \in DOMAIN Joined(s, t) :
                 \/ k \in DOMAIN s
                 \/ \E n \in DOMAIN t : n # 1 /\ Joined(s, t)[k] = t[n]
<1> DEFINE u == Tail(t)
<1>1. /\ u \in Seq(S) /\ Len(u) = Len(t) - 1 /\ \A n \in 1..Len(u) : u[n] = t[n + 1]
  BY HeadTailProperties
<1>2. Len(s) \in Nat /\ Len(t) \in Nat \ {0} /\ DOMAIN s = 1..Len(s) /\ DOMAIN t = 1..Len(t)
  BY LenProperties, EmptySeq
<1> HIDE DEF u
<1>3. s \o u \in Seq(S) /\ Len(s \o u) = Len(s) + Len(u) /\ DOMAIN (s \o u) = 1..(Len(s) + Len(u))
  <2>1. s \o u \in Seq(S) /\ Len(s \o u) = Len(s) + Len(u)
    BY <1>1, ConcatProperties
  <2> QED
    BY <2>1, LenProperties
<1>4. \A n \in 1..(Len(s) + Len(u)) : (s \o u)[n] = IF n <= Len(s) THEN s[n] ELSE u[n - Len(s)]
  BY <1>1, ConcatProperties
<1>5. ASSUME NEW n \in DOMAIN t, n # 1 PROVE \E k \in DOMAIN (s \o u) : (s \o u)[k] = t[n]
  <2>1. Len(s) + n - 1 \in DOMAIN (s \o u) /\ (s \o u)[Len(s) + n - 1] = u[n - 1] /\ u[n - 1] = t[n]
    BY <1>1, <1>2, <1>3, <1>4, <1>5
  <2> QED
    BY <2>1
<1>6. ASSUME NEW k \in DOMAIN (s \o u), k \notin DOMAIN s
      PROVE  \E n \in DOMAIN t : n # 1 /\ (s \o u)[k] = t[n]
  <2>1. k - Len(s) + 1 \in DOMAIN t /\ (s \o u)[k] = t[k - Len(s) + 1] /\ k - Len(s) + 1 # 1
    BY <1>1, <1>2, <1>3, <1>4, <1>6
  <2> QED
    BY <2>1
<1>7. ASSUME NEW n \in DOMAIN s PROVE n \in DOMAIN (s \o u) /\ (s \o u)[n] = s[n]
  BY <1>1, <1>2, <1>3, <1>4
<1>8. s # <<>> => s \o u # <<>>
  BY <1>1, ConcatEqualIffEmpty
<1>9. Joined(s, t) = s \o u
  BY DEF Joined, u
<1> QED
  BY <1>3, <1>5, <1>6, <1>7, <1>8, <1>9, Zenon

LEMMA StillThere ==
    ASSUME NEW S, NEW t \in Seq(S), t # <<>>
    PROVE  \A n \in DOMAIN t : n # 1 => \E k \in DOMAIN Tail(t) : Tail(t)[k] = t[n]
<1> SUFFICES ASSUME NEW n \in DOMAIN t, n # 1 PROVE \E k \in DOMAIN Tail(t) : Tail(t)[k] = t[n]
  OBVIOUS
<1>1. Tail(t) \in Seq(S) /\ Len(Tail(t)) = Len(t) - 1 /\ \A k \in 1..Len(Tail(t)) : Tail(t)[k] = t[k + 1]
  BY HeadTailProperties
<1>2. Len(t) \in Nat /\ DOMAIN t = 1..Len(t)
  BY LenProperties
<1>3. DOMAIN Tail(t) = 1..Len(Tail(t))
  BY <1>1, LenProperties, Zenon
<1>4. n - 1 \in 1..Len(Tail(t)) /\ (n - 1) + 1 = n
  BY <1>1, <1>2
<1>5. n - 1 \in DOMAIN Tail(t) /\ Tail(t)[n - 1] = t[n]
  BY <1>1, <1>3, <1>4
<1> QED
  BY <1>5

LEMMA Single == ASSUME NEW S, NEW x \in S PROVE <<x>> \in Seq(S) /\ <<x>> # <<>>
  OBVIOUS

\* What the resources are.
LEMMA ResourceTypes ==
    /\ \A i \in Items : <<i, "data">> \in Resources
    /\ \A f \in Files : <<f, "rez">> \in Resources
    /\ \A r \in Resources : /\ r[1] \in Items
                            /\ r[1] \in Folders => r = <<r[1], "data">> /\ r[1] \notin Files
                            /\ r[1] \notin Folders => r[1] \in Files
    /\ \A i \in Items : <<i, "data">>[1] = i
  BY ConstantsAssumption DEF Resources, Items

\* There is an end to them.
LEMMA FiniteResources ==
    /\ \A S \in SUBSET Items : IsFiniteSet(S)
    /\ \A S \in SUBSET Resources : IsFiniteSet(S)
<1>1. IsFiniteSet(Items)
  BY ConstantsAssumption, FS_Union DEF Items
<1>2. IsFiniteSet({"data"}) /\ IsFiniteSet({"rez"})
  BY FS_Singleton
<1>3. IsFiniteSet(Items \X {"data"}) /\ IsFiniteSet(Files \X {"rez"})
  BY <1>1, <1>2, ConstantsAssumption, FS_Product
<1>4. IsFiniteSet(Resources)
  BY <1>3, FS_Union DEF Resources
<1> QED
  BY <1>1, <1>4, FS_Subset
-----------------------------------------------------------------------------
\* The tree.  What is in a folder is the smallest set that is closed.
Closed(d, S) == Children[d] \subseteq S /\ \A e \in S \cap Folders : Children[e] \subseteq S

LEMMA WithinClosed ==
    ASSUME NEW d \in Folders
    PROVE  Within[d] \subseteq Items /\ Closed(d, Within[d])
<1>1. Within[d] = {i \in Items : \A S \in SUBSET Items : Closed(d, S) => i \in S}
  BY DEF Within, Closed
<1>2. \A e \in Folders : Children[e] \subseteq Items
  BY ConstantsAssumption
<1> QED
  BY <1>1, <1>2 DEF Closed

LEMMA WithinLeast ==
    ASSUME NEW d \in Folders, NEW S \in SUBSET Items, Closed(d, S)
    PROVE  Within[d] \subseteq S
  BY DEF Within, Closed

LEMMA WithinTransitive ==
    ASSUME NEW d \in Folders, NEW e \in Within[d] \cap Folders
    PROVE  Within[e] \subseteq Within[d]
<1>1. Within[d] \in SUBSET Items /\ Closed(e, Within[d])
  BY WithinClosed DEF Closed
<1> QED
  BY <1>1, WithinLeast

\* What is in a folder is a child, or in a child; and it is a child of something in it.
LEMMA WithinSplit ==
    ASSUME NEW d \in Folders, NEW i \in Within[d]
    PROVE  /\ i \in Children[d] \/ \E e \in Children[d] \cap Folders : i \in Within[e]
           /\ i \in Children[d] \/ \E e \in Within[d] \cap Folders : i \in Children[e]
<1> DEFINE S == Children[d] \cup UNION {Within[e] : e \in Children[d] \cap Folders}
           T == Children[d] \cup UNION {Children[e] : e \in Within[d] \cap Folders}
<1>1. \A e \in Folders : Within[e] \subseteq Items /\ Children[e] \subseteq Items /\ Closed(e, Within[e])
  BY WithinClosed, ConstantsAssumption
<1>2. S \in SUBSET Items /\ T \in SUBSET Items
  BY <1>1
<1>3. Closed(d, S)
  BY <1>1 DEF Closed
<1>4. Closed(d, T)
  <2>1. T \subseteq Within[d]
    BY <1>1 DEF Closed
  <2> QED
    BY <2>1 DEF Closed
<1>5. i \in S /\ i \in T
  BY <1>2, <1>3, <1>4, WithinLeast
<1> QED
  BY <1>5

\* Two folders that are not in each other have nothing in common.
LEMMA WithinApart ==
    ASSUME NEW d \in Folders, NEW e \in Folders, NEW i \in Within[d] \cap Within[e]
    PROVE  d = e \/ d \in Within[e] \/ e \in Within[d]
<1> SUFFICES ASSUME d # e, d \notin Within[e], e \notin Within[d] PROVE FALSE
  OBVIOUS
<1> DEFINE S == Within[d] \ Within[e]
<1>1. S \in SUBSET Items /\ Closed(d, Within[d])
  BY WithinClosed
<1>2. ASSUME NEW f \in {d} \cup (S \cap Folders), NEW c \in Children[f] PROVE c \in S
  <2>1. f \in Folders /\ f # e /\ f \notin Within[e]
    OBVIOUS
  <2>2. c \in Within[d]
    BY <1>1, <1>2 DEF Closed
  <2>3. c \notin Within[e]
    <3>1. SUFFICES ASSUME c \in Within[e] PROVE FALSE
      OBVIOUS
    <3>2. \E g \in {e} \cup (Within[e] \cap Folders) : c \in Children[g]
      BY <3>1, WithinSplit
    <3> QED
      BY <2>1, <3>2, <1>2, TreeAssumption
  <2> QED
    BY <2>2, <2>3
<1>3. Closed(d, S)
  BY <1>2 DEF Closed
<1> QED
  BY <1>1, <1>3, WithinLeast

-----------------------------------------------------------------------------
\* Types.  What a call is about: the rows of TypeOK, and that only a file is locked, or
\* unlocked, with its fork.
Kinds(name, resources) ==
    /\ name \in LockCalls \cup FetchCalls => resources # <<>>
    /\ name \in {"exists", "get", "getRez"} => resources[1][1] \in Files
    /\ name = "list" => resources[1][1] \in Folders
    /\ name \in {"existsLock", "lockRez", "propsRez", "rollback"} =>
          resources[1] \in Files \X {"data"}

ServerOK ==
    /\ content \in [Resources -> {"none"} \cup Contents]
    /\ lock \in [Resources -> {"free", "ours", "theirs"}]
StoreOK == record \subseteq Resources /\ rows \subseteq Items
DiskOK ==
    /\ local \in [Resources -> {"none", "part"} \cup Contents]
    /\ merged \in [Files -> {"none"} \cup Contents]
    /\ taken \subseteq Items
JobOK ==
    /\ mode \in {"download", "lock", "trash"}
    /\ pc \in {"idle", "start", "delete"} \cup LockCalls \cup FetchCalls
    /\ pick \in Seq(Items) /\ rest \in Seq(Items) /\ todo \in Seq(Resources)
    /\ pc # "idle" => rest # <<>>
    /\ Kinds(pc, todo)
FlagsOK ==
    /\ answer \in Answers /\ listed \subseteq Resources
    /\ fork \in BOOLEAN /\ canceled \in BOOLEAN /\ muted \in BOOLEAN
TypeInv == ServerOK /\ StoreOK /\ DiskOK /\ JobOK /\ FlagsOK /\ trouble \subseteq Troubles

LEMMA TypeInvOK == TypeInv => TypeOK
  BY DEF TypeInv, TypeOK, ServerOK, StoreOK, DiskOK, JobOK, FlagsOK, Kinds

LEMMA TypeInit == Init => TypeInv
<1> SUFFICES ASSUME Init PROVE TypeInv
  OBVIOUS
<1>1. ServerOK /\ StoreOK /\ DiskOK
  BY DEF Init, ServerOK, StoreOK, DiskOK, Contents
<1>2. JobOK
  BY DEF Init, JobOK, Kinds, LockCalls, FetchCalls
<1>3. FlagsOK
  BY DEF Init, FlagsOK, Answers
<1> QED
  BY <1>1, <1>2, <1>3 DEF Init, TypeInv

\* What the thread changes when it goes on.
MovesOn == DiskOK' /\ JobOK' /\ FlagsOK' /\ trouble' \subseteq Troubles

LEMMA FinishOK == TypeInv /\ Finish /\ trouble' \subseteq Troubles => MovesOn
<1> SUFFICES ASSUME TypeInv, Finish, trouble' \subseteq Troubles PROVE MovesOn
  OBVIOUS
<1>1. JobOK'
  BY DEF Finish, Call, JobOK, Kinds, LockCalls, FetchCalls
<1>2. DiskOK' /\ FlagsOK'
  BY DEF TypeInv, Finish, Call, DiskOK, FlagsOK, Answers, disk
<1> QED
  BY <1>1, <1>2 DEF MovesOn

LEMMA TurnOK ==
    ASSUME TypeInv, NEW name \in LockCalls \cup FetchCalls,
           NEW items \in Seq(Items), items # <<>>, NEW resources \in Seq(Resources),
           Kinds(name, resources), NEW new \in BOOLEAN, Turn(name, items, resources, new)
    PROVE  JobOK' /\ FlagsOK'
  BY DEF TypeInv, Turn, Call, JobOK, FlagsOK, Kinds, Answers

LEMMA GetOK ==
    ASSUME TypeInv, NEW items \in Seq(Items), items # <<>>, NEW resources \in Seq(Resources),
           resources # <<>>, resources[1][1] \in Files, NEW new \in BOOLEAN,
           Get(items, resources, new)
    PROVE  MovesOn
<1>1. Kinds("get", resources) /\ "get" \in LockCalls \cup FetchCalls
  BY DEF Kinds, LockCalls, FetchCalls
<1>2. trouble' \subseteq Troubles
  BY DEF Get, Noted, When, Troubles, TypeInv
<1>3. CASE Turn("get", items, resources, new)
  <2>1. JobOK' /\ FlagsOK'
    BY <1>1, <1>3, TurnOK
  <2>2. DiskOK'
    BY <1>3 DEF Get, TypeInv, DiskOK, Turn, Finish, Call
  <2> QED
    BY <1>2, <2>1, <2>2 DEF MovesOn
<1>4. CASE Finish
  BY <1>2, <1>4, FinishOK
<1> QED
  BY <1>3, <1>4 DEF Get

LEMMA FetchOK ==
    ASSUME TypeInv, NEW items \in Seq(Items), items # <<>>, NEW resources \in Seq(Resources),
           resources # <<>>, Fetch(items, resources)
    PROVE  MovesOn
<1>0. resources[1] \in Resources
  OBVIOUS
<1>1. CASE resources[1][1] \in Folders
  <2>1. Turn("list", items, resources, FALSE)
        /\ local' = [local EXCEPT ![resources[1]] = "old"] /\ UNCHANGED <<merged, taken, trouble>>
    BY <1>1 DEF Fetch
  <2>2. Kinds("list", resources) /\ "list" \in LockCalls \cup FetchCalls
    BY <1>1 DEF Kinds, LockCalls, FetchCalls
  <2>3. JobOK' /\ FlagsOK'
    BY <2>1, <2>2, TurnOK
  <2>4. DiskOK'
    BY <2>1 DEF TypeInv, DiskOK, Contents
  <2> QED
    BY <2>1, <2>3, <2>4 DEF MovesOn, TypeInv
<1>2. CASE resources[1][1] \in Files /\ resources[1][1] \notin Folders
  <2>1. CASE Encoding
    <3>1. Turn("exists", items, resources, FALSE) /\ UNCHANGED <<disk, trouble>>
      BY <1>2, <2>1 DEF Fetch
    <3>2. Kinds("exists", resources) /\ "exists" \in LockCalls \cup FetchCalls
      BY <1>2 DEF Kinds, LockCalls, FetchCalls
    <3>3. JobOK' /\ FlagsOK'
      BY <3>1, <3>2, TurnOK
    <3> QED
      BY <3>1, <3>3 DEF MovesOn, TypeInv, DiskOK, disk
  <2>2. CASE ~Encoding
    BY <1>2, <2>2, GetOK DEF Fetch
  <2> QED
    BY <2>1, <2>2
<1> QED
  BY <1>0, <1>1, <1>2, ResourceTypes

LEMMA BeginOK ==
    ASSUME TypeInv, NEW items \in Seq(Items), items # <<>>, NEW resources \in Seq(Resources),
           resources # <<>>, Begin(items, resources)
    PROVE  MovesOn
<1>1. CASE mode = "lock"
  <2>1. Turn("lock", items, resources, FALSE) /\ UNCHANGED <<disk, trouble>>
    BY <1>1 DEF Begin
  <2>2. Kinds("lock", resources) /\ "lock" \in LockCalls \cup FetchCalls
    BY DEF Kinds, LockCalls
  <2>3. JobOK' /\ FlagsOK'
    BY <2>1, <2>2, TurnOK
  <2> QED
    BY <2>1, <2>3 DEF MovesOn, TypeInv, DiskOK, disk
<1> QED
  BY <1>1, FetchOK DEF Begin

LEMMA BeginTopOK ==
    ASSUME TypeInv, NEW items \in Seq(Items), items # <<>>, BeginTop(items)
    PROVE  MovesOn
<1>1. items[1] \in Items
  OBVIOUS
<1>2. <<items[1], "data">> \in Resources
  BY <1>1, ResourceTypes
<1>3. << <<items[1], "data">> >> \in Seq(Resources) /\ << <<items[1], "data">> >> # << >>
  BY <1>2
<1> QED
  BY <1>3, BeginOK DEF BeginTop

LEMMA NextTopOK == TypeInv /\ pc # "idle" /\ NextTop => MovesOn
<1> SUFFICES ASSUME TypeInv, pc # "idle", NextTop PROVE MovesOn
  OBVIOUS
<1>1. rest \in Seq(Items) /\ rest # <<>>
  BY DEF TypeInv, JobOK
<1>2. Len(rest) # 1 => Tail(rest) \in Seq(Items) /\ Tail(rest) # <<>>
  BY <1>1, Tails
<1> QED
  BY <1>2, FinishOK, BeginTopOK DEF NextTop, TypeInv

LEMMA TopDoneOK == ASSUME TypeInv, pc # "idle", NEW ok, TopDone(ok) PROVE MovesOn
<1>1. CASE Continue("delete") /\ UNCHANGED trouble
  BY <1>1 DEF TypeInv, MovesOn, Continue, Call, DiskOK, JobOK, FlagsOK, Kinds, LockCalls,
              FetchCalls, Answers, disk, job, flags
<1> QED
  BY <1>1, FinishOK, NextTopOK DEF TopDone, TypeInv

LEMMA DoneOK ==
    ASSUME TypeInv, pc \in LockCalls \cup FetchCalls, NEW ok, Done(ok)
    PROVE  MovesOn
<1>1. pc # "idle" /\ todo \in Seq(Resources) /\ todo # <<>> /\ rest \in Seq(Items) /\ rest # <<>>
  BY DEF TypeInv, JobOK, Kinds, LockCalls, FetchCalls
<1>2. Len(todo) # 1 => Tail(todo) \in Seq(Resources) /\ Tail(todo) # <<>>
  BY <1>1, Tails
<1>3. CASE UNCHANGED trouble /\ Finish
  BY <1>3, FinishOK DEF TypeInv
<1>4. CASE \E done : TopDone(done)
  BY <1>1, <1>4, TopDoneOK
<1>5. CASE Len(todo) # 1 /\ Begin(rest, Tail(todo))
  BY <1>1, <1>2, <1>5, BeginOK
<1> QED
  BY <1>3, <1>4, <1>5 DEF Done

LEMMA StartOK ==
    ASSUME TypeInv, NEW how \in {"download", "lock", "trash"}, NEW items \in Seq(Items),
           Start(how, items), trouble' \subseteq Troubles
    PROVE  TypeInv'
<1>1. JobOK'
  BY DEF Start, Call, JobOK, Kinds, LockCalls, FetchCalls
<1>2. DiskOK' /\ FlagsOK'
  BY DEF TypeInv, Start, Call, DiskOK, FlagsOK, Answers
<1> QED
  BY <1>1, <1>2 DEF TypeInv, ServerOK, StoreOK, Start, server

LEMMA CommandOK == TypeInv /\ Command => TypeInv'
<1> SUFFICES ASSUME TypeInv, Command PROVE TypeInv'
  OBVIOUS
<1>1. ASSUME NEW items \in Selections, NEW how \in {"download", "lock"}, Download(how, items)
      PROVE  TypeInv'
  <2>1. PICK order \in SetToSeqs(items) : Start(how, order)
    BY <1>1 DEF Download
  <2>2. items \subseteq Items
    BY ConstantsAssumption
  <2>3. order \in Seq(Items)
    BY <2>1, <2>2, FiniteResources, Orders, SeqMonotonic
  <2> QED
    BY <1>1, <2>1, <2>3, StartOK DEF Download, TypeInv
<1>2. ASSUME NEW items \in Selections, MoveItemsToTrash(items) PROVE TypeInv'
  <2>1. PICK kept \in SUBSET items : \E order \in SetToSeqs(kept) : Start("trash", order)
    BY <1>2 DEF MoveItemsToTrash, PruneItemVector
  <2>2. PICK order \in SetToSeqs(kept) : Start("trash", order)
    BY <2>1
  <2>3. kept \subseteq Items
    BY ConstantsAssumption
  <2>4. order \in Seq(Items)
    BY <2>2, <2>3, FiniteResources, Orders, SeqMonotonic
  <2>5. trouble' \subseteq Troubles
    BY <1>2 DEF MoveItemsToTrash, Noted, When, Troubles, TypeInv
  <2> QED
    BY <2>2, <2>4, <2>5, StartOK
<1> QED
  BY <1>1, <1>2 DEF Command

\* What a failed call leaves.
LEMMA FailOK ==
    ASSUME TypeInv, Fail, UNCHANGED <<server, record, rows, pc, job, fork>>,
           canceled' \in BOOLEAN, muted' \in BOOLEAN, trouble' \subseteq Troubles
    PROVE  TypeInv'
<1>1. DiskOK'
  BY DEF TypeInv, Fail, DiskOK
<1>2. FlagsOK'
  BY DEF TypeInv, Fail, FlagsOK, Answers
<1> QED
  BY <1>1, <1>2 DEF TypeInv, ServerOK, StoreOK, JobOK, server, job

LEMMA CancelOK == TypeInv /\ CancelOperation => TypeInv'
<1> SUFFICES ASSUME TypeInv, CancelOperation PROVE TypeInv'
  OBVIOUS
<1>1. PICK single \in BOOLEAN :
         muted' = single /\ IF single THEN Fail ELSE UNCHANGED <<answer, disk, listed>>
  BY DEF CancelOperation
<1>2. UNCHANGED <<server, record, rows, pc, job, fork>> /\ canceled' = TRUE
  BY DEF CancelOperation
<1>3. trouble' \subseteq Troubles
  BY DEF CancelOperation, Noted, Troubles, TypeInv
<1>4. CASE Fail
  BY <1>1, <1>2, <1>3, <1>4, FailOK
<1>5. CASE UNCHANGED <<answer, disk, listed>>
  BY <1>1, <1>2, <1>3, <1>5 DEF TypeInv, ServerOK, StoreOK, DiskOK, JobOK, FlagsOK, server, job, disk
<1> QED
  BY <1>1, <1>4, <1>5

\* A thread that moves on changes nothing else.
LEMMA ThreadKeeps ==
    ASSUME TypeInv, MovesOn, UNCHANGED <<server, rows>>, record' \subseteq Resources
    PROVE  TypeInv'
  BY DEF TypeInv, MovesOn, ServerOK, StoreOK, server

\* The calls for the resource under way, and for its fork.
LEMMA ContinueOK ==
    ASSUME TypeInv, NEW name \in {"getRez", "props", "existsLock", "lockRez", "propsRez", "rollback"},
           Continue(name), UNCHANGED trouble, pc # "idle", Kinds(name, todo)
    PROVE  MovesOn
<1>1. JobOK'
  BY DEF TypeInv, Continue, Call, JobOK, LockCalls, FetchCalls, job
<1>2. DiskOK' /\ FlagsOK'
  BY DEF TypeInv, Continue, Call, DiskOK, FlagsOK, Answers, disk, flags
<1> QED
  BY <1>1, <1>2 DEF MovesOn, TypeInv

\* A listing is fetched in the server's order.
LEMMA ListAnsweredOK == TypeInv /\ ListAnswered => MovesOn
<1> SUFFICES ASSUME TypeInv, ListAnswered PROVE MovesOn
  OBVIOUS
<1>1. pc = "list" /\ pc \in LockCalls \cup FetchCalls
  BY DEF ListAnswered, Answered, FetchCalls
<1>2. /\ todo \in Seq(Resources) /\ todo # <<>> /\ rest \in Seq(Items) /\ rest # <<>>
      /\ listed \subseteq Resources
  BY <1>1 DEF TypeInv, JobOK, Kinds, FlagsOK
<1>3. PICK found \in SUBSET listed :
         IF found = {} THEN Done(TRUE)
         ELSE \E order \in SetToSeqs(found) : Begin(rest, order \o Tail(todo))
  BY DEF ListAnswered
<1>4. CASE found = {}
  BY <1>1, <1>3, <1>4, DoneOK
<1>5. CASE found # {}
  <2>1. PICK order \in SetToSeqs(found) : Begin(rest, order \o Tail(todo))
    BY <1>3, <1>5
  <2>2. found \subseteq Resources
    BY <1>2
  <2>3. order \in Seq(Resources) /\ order # <<>>
    BY <1>5, <2>1, <2>2, FiniteResources, Orders, SeqMonotonic
  <2>4. Tail(todo) \in Seq(Resources)
    BY <1>2, HeadTailProperties
  <2>5. order \o Tail(todo) \in Seq(Resources) /\ order \o Tail(todo) # <<>>
    BY <2>3, <2>4, ConcatProperties, ConcatEqualIffEmpty
  <2> QED
    BY <1>2, <2>1, <2>5, BeginOK
<1> QED
  BY <1>4, <1>5

LEMMA ThreadOK == TypeInv /\ Thread => TypeInv'
<1> SUFFICES ASSUME TypeInv, Thread PROVE TypeInv'
  OBVIOUS
<1>0. /\ todo \in Seq(Resources) /\ rest \in Seq(Items) /\ record \subseteq Resources
      /\ pc # "idle" => rest # <<>>
      /\ Kinds(pc, todo)
  BY DEF TypeInv, JobOK, StoreOK
<1>same. record \subseteq Resources /\ UNCHANGED record => record' \subseteq Resources
  OBVIOUS
<1>1. CASE Started
  <2>1. MovesOn
    BY <1>0, <1>1, FinishOK, BeginTopOK DEF Started, TypeInv
  <2> QED
    BY <1>0, <1>1, <2>1, ThreadKeeps DEF Started
<1>2. CASE ListAnswered
  BY <1>0, <1>2, ListAnsweredOK, ThreadKeeps DEF ListAnswered
<1>3. CASE ExistsAnswered
  <2>1. todo # <<>> /\ todo[1][1] \in Files /\ pc # "idle"
    BY <1>0, <1>3 DEF ExistsAnswered, Answered, Kinds, FetchCalls
  <2>2. MovesOn
    BY <1>0, <1>3, <2>1, GetOK DEF ExistsAnswered
  <2> QED
    BY <1>0, <1>3, <2>2, ThreadKeeps DEF ExistsAnswered
<1>4. CASE GetAnswered
  <2>1. pc = "get" /\ pc \in LockCalls \cup FetchCalls /\ Kinds("getRez", todo)
    BY <1>0, <1>4 DEF GetAnswered, Answered, FetchCalls, Kinds
  <2>2. MovesOn
    BY <1>4, <2>1, DoneOK, ContinueOK DEF GetAnswered
  <2> QED
    BY <1>0, <1>4, <2>2, ThreadKeeps DEF GetAnswered
<1>5. CASE GetRezAnswered
  <2>1. pc \in LockCalls \cup FetchCalls
    BY <1>5 DEF GetRezAnswered, Answered, FetchCalls
  <2> QED
    BY <1>0, <1>5, <2>1, DoneOK, ThreadKeeps DEF GetRezAnswered
<1>6. CASE DeleteAnswered
  <2>1. MovesOn
    BY <1>6, NextTopOK DEF DeleteAnswered, Answered
  <2> QED
    BY <1>6, <2>1 DEF DeleteAnswered, TypeInv, MovesOn, ServerOK, StoreOK, server
<1>7. CASE LockAnswered
  <2>1. pc = "lock" /\ pc \in LockCalls \cup FetchCalls /\ Kinds("props", todo)
    BY <1>0, <1>7 DEF LockAnswered, Answered, LockCalls, Kinds
  <2>2. MovesOn
    BY <1>7, <2>1, DoneOK, ContinueOK DEF LockAnswered
  <2> QED
    BY <1>0, <1>7, <2>2, ThreadKeeps DEF LockAnswered
<1>8. CASE PropsAnswered
  <2>1. pc = "props" /\ pc \in LockCalls \cup FetchCalls /\ todo # <<>>
    BY <1>0, <1>8 DEF PropsAnswered, Answered, LockCalls, Kinds
  <2>2. todo[1] \in Resources
    BY <1>0, <2>1, ElementOfSeq, EmptySeq
  <2>3. record' \subseteq Resources
    BY <1>0, <1>8, <2>2 DEF PropsAnswered
  <2>4. todo[1] \in Files \X {"data"} => Kinds("existsLock", todo)
    BY <2>1 DEF Kinds
  <2>5. MovesOn
    BY <1>0, <1>8, <2>1, <2>4, DoneOK, ContinueOK, FetchOK DEF PropsAnswered
  <2> QED
    BY <1>8, <2>3, <2>5, ThreadKeeps DEF PropsAnswered
<1>9. CASE ExistsLockAnswered
  <2>1. pc = "existsLock" /\ pc # "idle" /\ todo # <<>> /\ Kinds("lockRez", todo)
    BY <1>0, <1>9 DEF ExistsLockAnswered, Answered, LockCalls, Kinds
  <2>2. MovesOn
    BY <1>0, <1>9, <2>1, ContinueOK, FetchOK DEF ExistsLockAnswered
  <2> QED
    BY <1>0, <1>9, <2>2, ThreadKeeps DEF ExistsLockAnswered
<1>10. CASE LockRezAnswered
  <2>1. pc # "idle" /\ Kinds("propsRez", todo) /\ Kinds("rollback", todo)
    BY <1>0, <1>10 DEF LockRezAnswered, Answered, LockCalls, Kinds
  <2>2. MovesOn
    BY <1>10, <2>1, ContinueOK DEF LockRezAnswered
  <2> QED
    BY <1>0, <1>10, <2>2, ThreadKeeps DEF LockRezAnswered
<1>11. CASE PropsRezAnswered
  <2>1. /\ pc # "idle" /\ todo # <<>> /\ Kinds("rollback", todo)
        /\ todo[1] \in Files \X {"data"}
    BY <1>0, <1>11 DEF PropsRezAnswered, Answered, LockCalls, Kinds
  <2>2. <<todo[1][1], "rez">> \in Resources
    BY <2>1, ResourceTypes
  <2>3. record' \subseteq Resources
    BY <1>0, <1>11, <2>2 DEF PropsRezAnswered
  <2>4. MovesOn
    BY <1>0, <1>11, <2>1, ContinueOK, FetchOK DEF PropsRezAnswered
  <2> QED
    BY <1>11, <2>3, <2>4, ThreadKeeps DEF PropsRezAnswered
<1>12. CASE RollbackAnswered
  <2>1. pc \in LockCalls \cup FetchCalls
    BY <1>12 DEF RollbackAnswered, Answered, LockCalls
  <2>2. record' \subseteq Resources
    BY <1>0, <1>12 DEF RollbackAnswered
  <2> QED
    BY <1>12, <2>1, <2>2, DoneOK, ThreadKeeps DEF RollbackAnswered
<1> QED
  BY <1>1, <1>2, <1>3, <1>4, <1>5, <1>6, <1>7, <1>8, <1>9, <1>10, <1>11, <1>12 DEF Thread

\* What the server does with the call under way.
LEMMA ServeCases ==
    ASSUME Serve
    PROVE  LET r == todo[1]  rez == <<r[1], "rez">> IN
           \/ pc = "list" /\ ServeList(r[1])
           \/ pc = "exists" /\ \E q : ServeExists(q)
           \/ pc = "existsLock" /\ ServeExists(rez)
           \/ pc = "get" /\ ServeGet(r)
           \/ pc = "getRez" /\ ServeGet(rez)
           \/ pc = "lock" /\ ServeLock(r)
           \/ pc = "lockRez" /\ ServeLock(rez)
           \/ pc \in {"props", "propsRez"} /\ \E q : ServeProps(q)
           \/ pc = "rollback" /\ ServeUnlock(r)
           \/ pc = "delete" /\ ServeDelete(rest[1])
  BY DEF Serve

\* A GET that succeeds brought the content, or is noted.
LEMMA GetIs ==
    ASSUME NEW r, ServeGet(r)
    PROVE  /\ answer' = "ok" /\ UNCHANGED <<server, taken>>
           /\ trouble \subseteq trouble' /\ trouble' \subseteq trouble \cup {"garbled"}
           /\ IF pc = "get"
              THEN /\ \E x \in {"part", content[r]} : local' = [local EXCEPT ![r] = x]
                   /\ UNCHANGED merged
              ELSE /\ \E x \in {"none", content[r]} : merged' = [merged EXCEPT ![r[1]] = x]
                   /\ UNCHANGED local
           /\ \/ "garbled" \in trouble'
              \/ /\ UNCHANGED trouble
                 /\ IF pc = "get" THEN local' = [local EXCEPT ![r] = content[r]] /\ UNCHANGED merged
                    ELSE merged' = [merged EXCEPT ![r[1]] = content[r]] /\ UNCHANGED local
<1>1. PICK whole \in BOOLEAN :
        /\ IF pc = "get"
           THEN /\ local' = [local EXCEPT ![r] = IF whole THEN content[r] ELSE "part"]
                /\ UNCHANGED merged
           ELSE /\ merged' = [merged EXCEPT ![r[1]] = IF whole THEN content[r] ELSE "none"]
                /\ UNCHANGED local
        /\ Noted(When(~whole, "garbled"))
  BY DEF ServeGet
<1>2. answer' = "ok" /\ UNCHANGED <<server, taken>>
  BY DEF ServeGet
<1>3. CASE whole
  <2>1. UNCHANGED trouble
    BY <1>1, <1>3 DEF Noted, When
  <2> QED
    BY <1>1, <1>2, <1>3, <2>1
<1>4. CASE ~whole
  <2>1. trouble' = trouble \cup {"garbled"}
    BY <1>1, <1>4 DEF Noted, When
  <2> QED
    BY <1>1, <1>2, <1>4, <2>1
<1> QED
  BY <1>3, <1>4

LEMMA ServeOK == TypeInv /\ Serve => TypeInv'
<1> SUFFICES ASSUME TypeInv, Serve PROVE TypeInv'
  OBVIOUS
<1>0. /\ UNCHANGED <<record, rows, pc, job, fork, canceled, muted>>
      /\ pc # "list" => UNCHANGED listed
  BY DEF Serve
<1>keeps. ASSUME ServerOK', DiskOK', answer' \in Answers, listed' \subseteq Resources,
                 trouble' \subseteq Troubles
          PROVE  TypeInv'
  BY <1>0, <1>keeps DEF TypeInv, StoreOK, JobOK, FlagsOK, job
<1>responds. ASSUME Respond("ok") \/ Respond("absent"), ServerOK', listed' \subseteq Resources,
                    UNCHANGED trouble
             PROVE  TypeInv'
  BY <1>keeps, <1>responds DEF TypeInv, Respond, DiskOK, Answers, disk
<1>listed. pc # "list" => listed' \subseteq Resources
  BY <1>0 DEF TypeInv, FlagsOK
<1>server. UNCHANGED server => ServerOK'
  BY DEF TypeInv, ServerOK, server
<1>1. ASSUME NEW d, ServeList(d) PROVE TypeInv'
  BY <1>1, <1>responds, <1>server DEF ServeList
<1>2. ASSUME NEW r, ServeExists(r), pc # "list" PROVE TypeInv'
  BY <1>2, <1>listed, <1>responds, <1>server DEF ServeExists
<1>3. CASE pc = "get" /\ ServeGet(todo[1])
  <2>1. todo \in Seq(Resources) /\ todo # <<>>
    BY <1>3 DEF TypeInv, JobOK, Kinds, FetchCalls
  <2>2. todo[1] \in Resources
    BY <2>1, ElementOfSeq, EmptySeq
  <2>3. PICK x \in {"part", content[todo[1]]} :
           local' = [local EXCEPT ![todo[1]] = x] /\ UNCHANGED merged
    BY <1>3, GetIs
  <2>4. answer' = "ok" /\ UNCHANGED <<server, taken>> /\ trouble' \subseteq trouble \cup {"garbled"}
    BY <1>3, GetIs
  <2>5. DiskOK'
    BY <2>2, <2>3, <2>4 DEF TypeInv, DiskOK, ServerOK
  <2>6. trouble' \subseteq Troubles
    BY <2>4 DEF TypeInv, Troubles
  <2> QED
    BY <1>3, <2>4, <2>5, <2>6, <1>keeps, <1>listed, <1>server DEF Answers
<1>4. CASE pc = "getRez" /\ ServeGet(<<todo[1][1], "rez">>)
  <2>1. todo[1][1] \in Files
    BY <1>4 DEF TypeInv, JobOK, Kinds
  <2>2. <<todo[1][1], "rez">> \in Resources /\ <<todo[1][1], "rez">>[1] = todo[1][1]
    BY <2>1, ResourceTypes
  <2>3. PICK x \in {"none", content[<<todo[1][1], "rez">>]} :
           merged' = [merged EXCEPT ![todo[1][1]] = x] /\ UNCHANGED local
    BY <1>4, <2>2, GetIs
  <2>4. answer' = "ok" /\ UNCHANGED <<server, taken>> /\ trouble' \subseteq trouble \cup {"garbled"}
    BY <1>4, GetIs
  <2>5. DiskOK'
    BY <2>1, <2>2, <2>3, <2>4 DEF TypeInv, DiskOK, ServerOK
  <2>6. trouble' \subseteq Troubles
    BY <2>4 DEF TypeInv, Troubles
  <2> QED
    BY <1>4, <2>4, <2>5, <2>6, <1>keeps, <1>listed, <1>server DEF Answers
<1>5. ASSUME NEW r, ServeLock(r) \/ ServeUnlock(r), pc # "list" PROVE TypeInv'
  <2>1. ServerOK'
    BY <1>5 DEF ServeLock, ServeUnlock, TypeInv, ServerOK
  <2> QED
    BY <1>5, <2>1, <1>listed, <1>responds DEF ServeLock, ServeUnlock
<1>6. ASSUME NEW r, ServeProps(r), pc # "list" PROVE TypeInv'
  BY <1>6, <1>listed, <1>responds, <1>server DEF ServeProps
<1>7. CASE pc = "delete" /\ ServeDelete(rest[1])
  <2>1. ServerOK'
    BY <1>7 DEF ServeDelete, TypeInv, ServerOK
  <2>2. trouble' \subseteq Troubles
    BY <1>7 DEF ServeDelete, Noted, When, TypeInv, Troubles
  <2>3. DiskOK' /\ answer' \in Answers
    BY <1>7 DEF ServeDelete, Respond, TypeInv, DiskOK, Answers, disk
  <2> QED
    BY <1>7, <2>1, <2>2, <2>3, <1>keeps, <1>listed
<1> QED
  BY ServeCases, <1>1, <1>2, <1>3, <1>4, <1>5, <1>6, <1>7

LEMMA OthersOK ==
    ASSUME TypeInv, NEW r \in Resources,
           OtherWrites(r) \/ OtherDeletes(r) \/ OtherLocks(r) \/ LockEnds(r)
    PROVE  TypeInv'
<1>1. UNCHANGED <<record, rows, disk, pc, answer, job, flags>>
  BY DEF OtherWrites, OtherDeletes, OtherLocks, LockEnds
<1>2. StoreOK' /\ DiskOK' /\ JobOK' /\ FlagsOK'
  BY <1>1 DEF TypeInv, StoreOK, DiskOK, JobOK, FlagsOK, disk, job, flags
<1>3. ServerOK'
  BY DEF OtherWrites, OtherDeletes, OtherLocks, LockEnds, TypeInv, ServerOK, Contents
<1>4. trouble' \subseteq Troubles
  BY DEF OtherWrites, OtherDeletes, OtherLocks, LockEnds, TypeInv, Noted, When, Troubles
<1> QED
  BY <1>2, <1>3, <1>4 DEF TypeInv

LEMMA TypeStep == TypeInv /\ [Next]_vars => TypeInv'
<1> SUFFICES ASSUME TypeInv, [Next]_vars PROVE TypeInv'
  OBVIOUS
<1>1. CASE Refuse \/ CallFails
  <2>1. Fail /\ UNCHANGED <<server, record, rows, pc, job, fork, canceled, muted>>
    BY <1>1 DEF Refuse, CallFails
  <2>2. canceled' \in BOOLEAN /\ muted' \in BOOLEAN
    BY <2>1 DEF TypeInv, FlagsOK
  <2>3. trouble' \subseteq Troubles
    BY <1>1 DEF Refuse, CallFails, Noted, TypeInv, Troubles
  <2> QED
    BY <2>1, <2>2, <2>3, FailOK
<1>2. CASE UNCHANGED vars
  <2>1. ServerOK' /\ StoreOK' /\ DiskOK'
    BY <1>2 DEF vars, TypeInv, ServerOK, StoreOK, DiskOK, server, disk
  <2>2. JobOK' /\ FlagsOK'
    BY <1>2 DEF vars, TypeInv, JobOK, FlagsOK, job, flags
  <2> QED
    BY <1>2, <2>1, <2>2 DEF vars, TypeInv
<1> QED
  BY <1>1, <1>2, CommandOK, CancelOK, ThreadOK, ServeOK, OthersOK DEF Next

\* What is kept of a command, of what it fetched and of its locks has its type, whatever
\* is selected and in whatever order (CDownloadFileThread and the threads derived from it).
THEOREM TypeCorrect == Spec => []TypeOK
  BY TypeInit, TypeStep, TypeInvOK, PTL DEF Spec
-----------------------------------------------------------------------------
\* The tree on the server.  What is there is in folders that are there: a folder is deleted
\* with all it holds, or stays.
TreeThere ==
    \A d \in Folders, r \in Resources :
        r[1] \in Within[d] /\ There(r) => There(<<d, "data">>)

\* What is deleted with an item, and what that leaves.
Under(i) == {r \in Resources : There(r) /\ (r = <<i, "data">> \/ Inside(r[1], i))}
HeldBack(i) == {r \in Under(i) : lock[r] # "free"}
Gone(i) ==
    {r \in Under(i) : \A h \in HeldBack(i) : r # h /\ ~Inside(h[1], r[1]) /\ ~Inside(r[1], h[1])}

LEMMA DeleteIs ==
    ASSUME NEW i, ServeDelete(i)
    PROVE  /\ content' = [r \in Resources |-> IF r \in Gone(i) THEN "none" ELSE content[r]]
           /\ lock[<<i, "data">>] = "free" /\ There(<<i, "data">>) /\ Respond("ok")
           /\ Noted(When(\E r \in Gone(i) : ~Saved(r) /\ r[1] = i, "lostTop")
                    \cup When(\E r \in Gone(i) : ~Saved(r) /\ r[1] # i, "lostInside")
                    \cup When(HeldBack(i) # {}, "partial"))
           /\ UNCHANGED lock
  BY DEF ServeDelete, Gone, HeldBack, Under

LEMMA TreeInit == Init => TreeThere
  BY ResourceTypes DEF Init, TreeThere, There, Items

LEMMA TreeStep == TypeInv /\ TreeThere /\ [Next]_vars => TreeThere'
<1> SUFFICES ASSUME TypeInv, TreeThere, [Next]_vars PROVE TreeThere'
  OBVIOUS
<1>1. CASE UNCHANGED content
  BY <1>1 DEF TreeThere, There
<1>2. ASSUME NEW r \in Resources, OtherWrites(r) \/ OtherDeletes(r) \/ OtherLocks(r) \/ LockEnds(r)
      PROVE  TreeThere'
  <2>1. ASSUME NEW q \in Resources, There(q)' PROVE There(q)
    BY <1>2, <2>1 DEF OtherWrites, OtherDeletes, OtherLocks, LockEnds, There, TypeInv, ServerOK, server
  <2>2. \A d \in Folders : There(<<d, "data">>) => There(<<d, "data">>)'
    <3>1. \A d \in Folders : <<d, "data">> \in Resources /\ <<d, "data">>[1] \notin Files
      BY ResourceTypes, ConstantsAssumption DEF Items
    <3> QED
      BY <1>2, <3>1
      DEF OtherWrites, OtherDeletes, OtherLocks, LockEnds, There, TypeInv, ServerOK, server
  <2> QED
    BY <2>1, <2>2 DEF TreeThere
<1>3. ASSUME NEW i \in Items, ServeDelete(i) PROVE TreeThere'
  <2> SUFFICES ASSUME NEW d \in Folders, NEW r \in Resources, r[1] \in Within[d], There(r)'
               PROVE  There(<<d, "data">>)'
    BY DEF TreeThere
  <2>1. content' = [q \in Resources |-> IF q \in Gone(i) THEN "none" ELSE content[q]]
    BY <1>3, DeleteIs
  <2>2. There(r) /\ r \notin Gone(i)
    BY <2>1 DEF There
  <2>3. There(<<d, "data">>) /\ <<d, "data">> \in Resources
    BY <2>2, ResourceTypes DEF TreeThere, Items
  <2>4. SUFFICES ASSUME <<d, "data">> \in Gone(i) PROVE FALSE
    BY <2>1, <2>3 DEF There
  <2>5. d = i \/ Inside(d, i)
    BY <2>4 DEF Gone, Under
  <2>6. r \in Under(i)
    BY <2>2, <2>5, WithinTransitive DEF Under, Inside
  <2>7. PICK h \in HeldBack(i) : r = h \/ Inside(h[1], r[1]) \/ Inside(r[1], h[1])
    BY <2>2, <2>6 DEF Gone
  <2>8. <<d, "data">> # h /\ ~Inside(h[1], d) /\ ~Inside(d, h[1]) /\ h \in Resources
    BY <2>4, <2>7 DEF Gone, HeldBack, Under
  <2>9. h[1] \notin Within[d]
    BY <2>8 DEF Inside
  <2>10. ~Inside(h[1], r[1])
    BY <2>9, WithinTransitive DEF Inside
  <2>11. h[1] \in Folders /\ r[1] \in Within[h[1]]
    BY <2>7, <2>9, <2>10 DEF Inside
  <2>12. h[1] = d
    BY <2>8, <2>9, <2>11, WithinApart DEF Inside
  <2> QED
    BY <2>8, <2>11, <2>12, ResourceTypes
<1>4. CASE Command \/ CancelOperation
  BY <1>1, <1>4 DEF Command, Download, MoveItemsToTrash, Start, CancelOperation, server
<1>5. CASE Refuse \/ CallFails
  BY <1>1, <1>5 DEF Refuse, CallFails, server
<1>6. CASE Thread
  BY <1>1, <1>6
  DEF Thread, Started, ListAnswered, ExistsAnswered, GetAnswered, GetRezAnswered, DeleteAnswered,
      LockAnswered, PropsAnswered, ExistsLockAnswered, LockRezAnswered, PropsRezAnswered,
      RollbackAnswered, server
<1>7. CASE Serve
  <2>1. pc = "delete" => rest[1] \in Items
    BY ElementOfSeq, EmptySeq DEF TypeInv, JobOK
  <2>2. CASE pc = "delete" /\ ServeDelete(rest[1])
    BY <1>3, <2>1, <2>2
  <2>3. CASE ~(pc = "delete" /\ ServeDelete(rest[1]))
    <3>1. UNCHANGED content
      BY <1>7, <2>3, ServeCases DEF ServeExists, ServeProps, ServeLock, ServeUnlock, ServeList, ServeGet, server
    <3> QED
      BY <1>1, <3>1
  <2> QED
    BY <2>2, <2>3
<1> QED
  BY <1>1, <1>2, <1>4, <1>5, <1>6, <1>7 DEF Next, vars, server
-----------------------------------------------------------------------------
\* The trash.  What an item under way is called on the server.
Top == <<rest[1], "data">>
Fetched(r) == local[r] = content[r]

\* The files that are in a folder, at any depth; what a listing of it brings; and what is
\* to come, by itself or with a folder that it is in.
Held(d) == {r \in Resources : r[1] \in Within[d] \cap Files /\ There(r)}
Listing(d) == {r \in Resources : r[1] \in Children[d] /\ There(r)}
Meant(r, q) == q = r \/ Inside(r[1], q[1])
Coming(r, resources) == \E n \in DOMAIN resources : Meant(r, resources[n])
Sound == trouble \cap {"raced", "garbled"} = {}
Calm == trouble \cap {"lost", "raced", "foreign", "garbled"} = {}

\* What is fetched for a file is the file itself.  The request of the trash is never
\* canceled.
Shape ==
    /\ pc \in LockCalls \cup FetchCalls /\ rest[1] \in Files => todo[1] = Top
    /\ mode = "trash" => ~muted /\ pc \notin LockCalls
    /\ pc = "delete" => mode = "trash"

\* A file is what the server has, when it has been fetched and until it is deleted: but if
\* another client wrote, or a GET garbled.
FileSafe ==
    Sound =>
       /\ "lostTop" \notin trouble
       /\ pc = "get" /\ answer \notin {"waiting", "failed"} => Fetched(todo[1])
       /\ pc = "getRez" /\ answer # "failed" => Fetched(todo[1])
       /\ pc = "delete" /\ answer = "waiting" /\ rest[1] \in Files => Fetched(Top)

\* What a folder holds is still to come, with a folder in it that is not yet listed or by
\* itself, or has been fetched.
FolderSafe ==
    Calm =>
       /\ "lostInside" \notin trouble
       /\ mode = "trash" => answer # "failed"
       /\ mode = "trash" /\ pc = "list" /\ answer # "waiting" => listed = Listing(todo[1][1])
       /\ mode = "trash" /\ rest[1] \in Folders =>
             /\ pc \in FetchCalls => \A r \in Held(rest[1]) : Coming(r, todo) \/ Fetched(r)
             /\ pc = "delete" /\ answer = "waiting" => \A r \in Held(rest[1]) : Fetched(r)

TrashInv == Shape /\ FileSafe /\ FolderSafe

\* How a thread moves on: it ends, deletes the item, or goes on with some resource.
Ends == pc' = "idle" /\ answer' = "waiting" /\ listed' = {} /\ mode' = "download" /\ muted' = FALSE
Deletes == pc' = "delete" /\ answer' = "waiting" /\ UNCHANGED <<mode, rest, local, muted, listed>>
Goes(items, resources) ==
    /\ rest' = items /\ todo' = resources /\ mode' = mode /\ muted' = muted
    /\ answer' = "waiting" /\ listed' = {}
    /\ \/ mode # "trash" /\ pc' = "lock"
       \/ pc' = "list" /\ resources[1][1] \in Folders
       \/ pc' \in {"exists", "get"} /\ resources[1][1] \in Files
    /\ \A r \in Resources : r # resources[1] => local'[r] = local[r]
Quiet == trouble \subseteq trouble' /\ trouble' \subseteq trouble \cup {"replaced", "blocked", "canceled"}

LEMMA GetGoes ==
    ASSUME TypeInv, NEW items \in Seq(Items), NEW resources \in Seq(Resources),
           resources # <<>>, resources[1][1] \in Files, NEW new, Get(items, resources, new)
    PROVE  Quiet /\ (Goes(items, resources) \/ (Ends /\ mode # "trash"))
<1>1. Quiet
  BY DEF Get, Noted, When, Quiet
<1>2. CASE Turn("get", items, resources, new) /\ local' = [local EXCEPT ![resources[1]] = "part"]
  <2>1. \A r \in Resources : r # resources[1] => local'[r] = local[r]
    BY <1>2 DEF TypeInv, DiskOK
  <2> QED
    BY <1>1, <1>2, <2>1 DEF Turn, Call, Goes
<1>3. CASE Finish /\ mode # "trash"
  BY <1>1, <1>3 DEF Finish, Call, Ends
<1> QED
  BY <1>2, <1>3 DEF Get

LEMMA FetchGoes ==
    ASSUME TypeInv, NEW items \in Seq(Items), NEW resources \in Seq(Resources),
           resources # <<>>, Fetch(items, resources)
    PROVE  Quiet /\ (Goes(items, resources) \/ (Ends /\ mode # "trash"))
<1>0. resources[1] \in Resources
  BY ElementOfSeq, EmptySeq
<1>1. CASE resources[1][1] \in Folders
  <2>1. /\ Turn("list", items, resources, FALSE) /\ UNCHANGED trouble
        /\ local' = [local EXCEPT ![resources[1]] = "old"]
    BY <1>1 DEF Fetch
  <2>2. \A r \in Resources : r # resources[1] => local'[r] = local[r]
    BY <2>1 DEF TypeInv, DiskOK
  <2> QED
    BY <1>1, <2>1, <2>2 DEF Turn, Call, Goes, Quiet
<1>2. CASE resources[1][1] \in Files /\ resources[1][1] \notin Folders /\ Encoding
  BY <1>2 DEF Fetch, Turn, Call, Goes, Quiet, disk
<1>3. CASE resources[1][1] \in Files /\ resources[1][1] \notin Folders /\ ~Encoding
  BY <1>3, GetGoes DEF Fetch
<1> QED
  BY <1>0, <1>1, <1>2, <1>3, ResourceTypes

LEMMA BeginGoes ==
    ASSUME TypeInv, NEW items \in Seq(Items), NEW resources \in Seq(Resources),
           resources # <<>>, Begin(items, resources)
    PROVE  Quiet /\ (Goes(items, resources) \/ (Ends /\ mode # "trash"))
<1>1. CASE mode = "lock"
  BY <1>1 DEF Begin, Turn, Call, Goes, Quiet, disk
<1> QED
  BY <1>1, FetchGoes DEF Begin

LEMMA NextTopGoes ==
    ASSUME TypeInv, pc # "idle", NextTop
    PROVE  /\ Quiet
           /\ Ends \/ \E items \in Seq(Items) : items # <<>> /\ Goes(items, << <<items[1], "data">> >>)
<1>0. rest \in Seq(Items) /\ rest # <<>>
  BY DEF TypeInv, JobOK
<1>1. CASE Finish /\ UNCHANGED trouble
  BY <1>1 DEF Finish, Call, Ends, Quiet
<1>2. CASE Len(rest) # 1 /\ BeginTop(Tail(rest))
  <2>1. Tail(rest) \in Seq(Items) /\ Tail(rest) # <<>>
    BY <1>0, <1>2, Tails
  <2>2. <<Tail(rest)[1], "data">> \in Resources
    BY <2>1, ResourceTypes, ElementOfSeq, EmptySeq
  <2>3. /\ << <<Tail(rest)[1], "data">> >> \in Seq(Resources)
        /\ << <<Tail(rest)[1], "data">> >> # << >>
    BY <2>2, Single
  <2> QED
    BY <1>2, <2>1, <2>3, BeginGoes DEF BeginTop
<1> QED
  BY <1>1, <1>2 DEF NextTop

LEMMA TopDoneGoes ==
    ASSUME TypeInv, pc # "idle", NEW ok \in BOOLEAN, TopDone(ok)
    PROVE  /\ Quiet
           /\ \/ Ends
              \/ \E items \in Seq(Items) : items # <<>> /\ Goes(items, << <<items[1], "data">> >>)
              \/ Deletes /\ mode = "trash" /\ ok
<1>1. CASE Continue("delete") /\ UNCHANGED trouble /\ mode = "trash" /\ ok
  BY <1>1 DEF Continue, Call, Deletes, Quiet, disk, job, flags
<1>2. CASE Finish /\ UNCHANGED trouble
  BY <1>2 DEF Finish, Call, Ends, Quiet
<1>3. CASE NextTop
  BY <1>3, NextTopGoes
<1> QED
  BY <1>1, <1>2, <1>3 DEF TopDone

LEMMA DoneGoes ==
    ASSUME TypeInv, pc \in LockCalls \cup FetchCalls, NEW ok \in BOOLEAN, Done(ok)
    PROVE  /\ Quiet
           /\ \/ Ends
              \/ \E items \in Seq(Items) : items # <<>> /\ Goes(items, << <<items[1], "data">> >>)
              \/ /\ Deletes /\ mode = "trash"
                 /\ IF rest[1] \in Files THEN ok ELSE Len(todo) = 1 /\ (todo[1] # Top \/ ok)
              \/ rest[1] \notin Files /\ Len(todo) # 1 /\ Goes(rest, Tail(todo))
<1>1. pc # "idle" /\ todo \in Seq(Resources) /\ todo # <<>> /\ rest \in Seq(Items) /\ rest # <<>>
  BY DEF TypeInv, JobOK, Kinds, LockCalls, FetchCalls
<1>2. Len(todo) # 1 => Tail(todo) \in Seq(Resources) /\ Tail(todo) # <<>>
  BY <1>1, Tails
<1>3. CASE Finish /\ UNCHANGED trouble
  BY <1>3 DEF Finish, Call, Ends, Quiet
<1>4. CASE rest[1] \in Files /\ TopDone(ok)
  BY <1>1, <1>4, TopDoneGoes
<1>5. CASE rest[1] \notin Files /\ Len(todo) = 1 /\ TopDone(todo[1] # Top \/ ok)
  BY <1>1, <1>5, TopDoneGoes
<1>6. CASE rest[1] \notin Files /\ Len(todo) # 1 /\ Begin(rest, Tail(todo))
  BY <1>1, <1>2, <1>6, BeginGoes
<1> QED
  BY <1>3, <1>4, <1>5, <1>6 DEF Done, Top

\* The thread has ended.
LEMMA EndsSafe == ASSUME TrashInv, Ends, Quiet PROVE TrashInv'
<1>1. Shape'
  BY DEF Ends, Shape, LockCalls, FetchCalls
<1>2. FileSafe'
  BY DEF Ends, TrashInv, FileSafe, Sound, Quiet
<1>3. FolderSafe'
  BY DEF Ends, TrashInv, FolderSafe, Quiet, Calm
<1> QED
  BY <1>1, <1>2, <1>3 DEF TrashInv

\* It goes on with a resource, and what it has so far is still there.
LEMMA GoesSafe ==
    ASSUME TypeInv, TrashInv, NEW items, NEW resources, Goes(items, resources), Quiet,
           UNCHANGED content, items[1] \in Files => resources[1] = <<items[1], "data">>,
           mode = "trash" /\ items[1] \in Folders /\ Calm =>
               \A r \in Held(items[1]) :
                   Coming(r, resources) \/ (local'[r] = local[r] /\ Fetched(r))
    PROVE  TrashInv'
<1>0. /\ rest' = items /\ todo' = resources /\ mode' = mode /\ answer' = "waiting" /\ muted' = muted
      /\ listed' = {} /\ pc' \in {"lock", "list", "exists", "get"} /\ (pc' = "lock" => mode # "trash")
  BY DEF Goes
<1>1. Shape'
  <2>1. mode = "trash" => ~muted
    BY DEF TrashInv, Shape
  <2> QED
    BY <1>0, <2>1 DEF Shape, Top, LockCalls
<1>2. FileSafe'
  BY <1>0 DEF TrashInv, FileSafe, Sound, Quiet
<1>3. FolderSafe'
  <2>1. Calm' => Calm /\ "lostInside" \notin trouble'
    BY DEF TrashInv, FolderSafe, Quiet, Calm
  <2>2. Held(items[1])' = Held(items[1]) /\ \A r : Coming(r, resources)' <=> Coming(r, resources)
    BY DEF Held, There, Coming, Meant, Inside
  <2>3. ASSUME mode = "trash", items[1] \in Folders, Calm, NEW r \in Held(items[1])
        PROVE  Coming(r, todo)' \/ Fetched(r)'
    <3>1. CASE Coming(r, resources)
      BY <1>0, <2>2, <3>1 DEF Coming
    <3>2. CASE local'[r] = local[r] /\ Fetched(r)
      BY <3>2 DEF Fetched
    <3> QED
      BY <2>3, <3>1, <3>2
  <2> QED
    BY <1>0, <2>1, <2>2, <2>3 DEF FolderSafe
<1> QED
  BY <1>1, <1>2, <1>3 DEF TrashInv

\* It goes on with the next item.
LEMMA TopBegun ==
    ASSUME TypeInv, TrashInv, NEW items \in Seq(Items), items # <<>>,
           Goes(items, << <<items[1], "data">> >>), Quiet, UNCHANGED content
    PROVE  TrashInv'
<1> DEFINE resources == << <<items[1], "data">> >>
<1>1. resources[1] = <<items[1], "data">> /\ resources[1][1] = items[1] /\ 1 \in DOMAIN resources
  OBVIOUS
<1> HIDE DEF resources
<1>2. items[1] \in Folders => \A r \in Held(items[1]) : Coming(r, resources)
  BY <1>1 DEF Held, Coming, Meant, Inside
<1> QED
  BY <1>1, <1>2, GoesSafe DEF resources

\* A resource is done, and what it was fetched for is done with it, or goes on.
LEMMA DoneSafe ==
    ASSUME TypeInv, TrashInv, pc \in LockCalls \cup FetchCalls, NEW ok \in BOOLEAN, Done(ok),
           UNCHANGED content,
           mode = "trash" => pc \in {"list", "get", "getRez"} /\ (~ok => answer = "failed"),
           mode = "trash" /\ pc # "list" /\ ok /\ Sound => Fetched(todo[1]),
           mode = "trash" /\ pc = "list" /\ Calm => Held(todo[1][1]) = {}
    PROVE  TrashInv'
<1>1. /\ todo \in Seq(Resources) /\ todo # <<>> /\ rest \in Seq(Items) /\ rest # <<>>
      /\ rest[1] \in Items
  <2>1. rest \in Seq(Items) /\ rest # <<>>
    BY DEF TypeInv, JobOK, LockCalls, FetchCalls
  <2>2. rest[1] \in Items
    BY <2>1, ElementOfSeq, EmptySeq
  <2> QED
    BY <2>1, <2>2 DEF TypeInv, JobOK, Kinds
<1>2. Calm => Sound
  BY DEF Calm, Sound
<1>3. Quiet
  BY DoneGoes
<1>4. CASE Ends
  BY <1>3, <1>4, EndsSafe
<1>5. ASSUME NEW items \in Seq(Items), items # <<>>, Goes(items, << <<items[1], "data">> >>)
      PROVE  TrashInv'
  BY <1>3, <1>5, TopBegun
<1>9. Len(todo) \in Nat \ {0} /\ DOMAIN todo = 1..Len(todo)
  BY <1>1, LenProperties, EmptySeq
<1>10. (pc = "list" => todo[1][1] \in Folders) /\ (pc \in {"get", "getRez"} => todo[1][1] \in Files)
  BY DEF TypeInv, JobOK, Kinds
<1>11. ASSUME mode = "trash", Calm, rest[1] \in Folders, NEW r \in Held(rest[1])
       PROVE  Fetched(r) \/ \E n \in DOMAIN todo : n # 1 /\ Meant(r, todo[n])
  <2>1. answer # "failed" /\ (Coming(r, todo) \/ Fetched(r))
    BY <1>11 DEF TrashInv, FolderSafe, FetchCalls
  <2>2. r \in Resources /\ r[1] \in Files /\ r[1] \notin Folders /\ There(r)
    BY <1>11, ConstantsAssumption DEF Held
  <2>3. Meant(r, todo[1]) => Fetched(r)
    <3>1. CASE pc = "list"
      <4>1. todo[1] # r /\ Held(todo[1][1]) = {}
        BY <1>10, <1>11, <2>2, <3>1
      <4> QED
        BY <2>2, <4>1 DEF Meant, Inside, Held
    <3>2. CASE pc # "list"
      <4>1. ~Inside(r[1], todo[1][1]) /\ Fetched(todo[1])
        BY <1>2, <1>10, <1>11, <2>1, <3>2, ConstantsAssumption DEF Inside
      <4> QED
        BY <4>1 DEF Meant
    <3> QED
      BY <3>1, <3>2
  <2> QED
    BY <2>1, <2>3 DEF Coming
<1>6. CASE /\ Deletes /\ mode = "trash"
           /\ IF rest[1] \in Files THEN ok ELSE Len(todo) = 1 /\ (todo[1] # Top \/ ok)
  <2>1. Top' = Top /\ Held(rest[1])' = Held(rest[1]) /\ \A r \in Resources : Fetched(r)' = Fetched(r)
    BY <1>6 DEF Top, Held, There, Deletes, Fetched
  <2>2. Shape'
    BY <1>6 DEF TrashInv, Shape, Deletes, LockCalls, FetchCalls
  <2>3. Sound /\ rest[1] \in Files => Fetched(Top)
    <3>1. rest[1] \in Files => todo[1] = Top /\ todo[1][1] = rest[1] /\ ok
      BY <1>6 DEF TrashInv, Shape, Top
    <3>2. rest[1] \in Files => pc # "list"
      BY <1>10, <3>1, ConstantsAssumption
    <3> QED
      BY <1>6, <3>1, <3>2
  <2>4. Top \in Resources
    BY <1>1, ResourceTypes DEF Top
  <2>5. FileSafe'
    BY <1>3, <1>6, <2>1, <2>3, <2>4 DEF TrashInv, FileSafe, Sound, Deletes, Quiet
  <2>6. ASSUME Calm, rest[1] \in Folders, NEW r \in Held(rest[1]) PROVE Fetched(r)
    <3>1. DOMAIN todo = 1..1
      BY <1>6, <1>9, <2>6, ConstantsAssumption
    <3> QED
      BY <1>6, <1>11, <2>6, <3>1
  <2>7. Calm' => Calm /\ "lostInside" \notin trouble'
    BY <1>3 DEF TrashInv, FolderSafe, Quiet, Calm
  <2>8. \A r \in Held(rest[1]) : Fetched(r)' = Fetched(r)
    BY <2>1 DEF Held
  <2>9. FolderSafe'
    BY <1>6, <2>1, <2>6, <2>7, <2>8 DEF FolderSafe, Deletes, FetchCalls
  <2> QED
    BY <2>2, <2>5, <2>9 DEF TrashInv
<1>7. CASE rest[1] \notin Files /\ Len(todo) # 1 /\ Goes(rest, Tail(todo))
  <2>1. /\ Tail(todo) \in Seq(Resources) /\ Tail(todo) # <<>>
        /\ \A n \in DOMAIN Tail(todo) : Tail(todo)[n] = todo[n + 1]
    BY <1>1, <1>7, Tails
  <2>2. DOMAIN Tail(todo) = 1..(Len(todo) - 1)
    BY <1>1, <2>1, LenProperties, HeadTailProperties
  <2>3. 1 \in DOMAIN Tail(todo)
    BY <1>7, <1>9, <2>2
  <2>4. ASSUME mode = "trash", Calm, rest[1] \in Folders, NEW r \in Held(rest[1])
        PROVE  Coming(r, Tail(todo)) \/ (local'[r] = local[r] /\ Fetched(r))
    <3>1. CASE \E n \in DOMAIN todo : n # 1 /\ Meant(r, todo[n])
      <4>1. PICK n \in DOMAIN todo : n # 1 /\ Meant(r, todo[n])
        BY <3>1
      <4>2. n - 1 \in DOMAIN Tail(todo) /\ Tail(todo)[n - 1] = todo[n]
        BY <1>9, <2>1, <2>2, <4>1
      <4> QED
        BY <4>1, <4>2 DEF Coming
    <3>2. CASE r = Tail(todo)[1]
      BY <2>3, <3>2 DEF Coming, Meant
    <3>3. CASE Fetched(r) /\ r # Tail(todo)[1]
      BY <1>7, <3>3 DEF Goes, Held
    <3> QED
      BY <1>11, <2>4, <3>1, <3>2, <3>3
  <2>5. rest[1] \notin Files
    BY <1>7
  <2> QED
    BY <1>3, <1>7, <2>4, <2>5, GoesSafe
<1> QED
  BY <1>4, <1>5, <1>6, <1>7, DoneGoes

\* What is in a folder comes with what a listing brings.
LEMMA AllIsListed ==
    ASSUME TreeThere, NEW d \in Folders, NEW r \in Resources, r[1] \in Within[d], There(r)
    PROVE  \E q \in Listing(d) : Meant(r, q)
<1>1. CASE r[1] \in Children[d]
  BY <1>1 DEF Listing, Meant
<1>2. CASE \E e \in Children[d] \cap Folders : r[1] \in Within[e]
  <2>1. PICK e \in Children[d] \cap Folders : r[1] \in Within[e]
    BY <1>2
  <2>2. <<e, "data">> \in Listing(d) /\ <<e, "data">>[1] = e
    BY <2>1, ResourceTypes DEF TreeThere, Listing, Items
  <2> QED
    BY <2>1, <2>2 DEF Meant, Inside
<1> QED
  BY <1>1, <1>2, WithinSplit

\* The listing of a folder that is moved to the trash is fetched as a whole.
LEMMA ListAnsweredSafe == ASSUME TypeInv, TreeThere, TrashInv, ListAnswered PROVE TrashInv'
<1>1. /\ pc = "list" /\ pc \in LockCalls \cup FetchCalls /\ answer # "waiting"
      /\ UNCHANGED <<server, record, rows>>
  BY DEF ListAnswered, Answered, FetchCalls
<1>2. /\ todo \in Seq(Resources) /\ todo # <<>> /\ rest \in Seq(Items) /\ rest # <<>>
      /\ listed \subseteq Resources /\ todo[1][1] \in Folders
  BY <1>1 DEF TypeInv, JobOK, Kinds, FlagsOK
<1>3. rest[1] \notin Files
  <2>1. rest[1] \in Files => todo[1] = <<rest[1], "data">>
    BY <1>1 DEF TrashInv, Shape, Top
  <2> QED
    BY <1>2, <2>1, ConstantsAssumption
<1>4. PICK found \in SUBSET listed :
         /\ mode = "trash" => found = listed
         /\ IF found = {} THEN Done(TRUE)
            ELSE \E order \in SetToSeqs(found) : Begin(rest, order \o Tail(todo))
  BY DEF ListAnswered
<1>5. mode = "trash" /\ Calm => found = Listing(todo[1][1])
  BY <1>1, <1>4 DEF TrashInv, FolderSafe
<1>6. CASE found = {}
  <2>1. Done(TRUE) /\ UNCHANGED content
    BY <1>1, <1>4, <1>6 DEF server
  <2>2. mode = "trash" /\ Calm => Held(todo[1][1]) = {}
    BY <1>2, <1>5, <1>6, AllIsListed DEF Held
  <2> QED
    BY <1>1, <2>1, <2>2, DoneSafe
<1>7. CASE found # {}
  <2>1. PICK order \in SetToSeqs(found) : Begin(rest, order \o Tail(todo))
    BY <1>4, <1>7
  <2>2. found \subseteq Resources
    BY <1>2
  <2>3. /\ order \in Seq(found) /\ order # <<>> /\ order \in Seq(Resources)
        /\ \A r \in found : \E n \in DOMAIN order : order[n] = r
    BY <1>7, <2>1, <2>2, FiniteResources, Orders, SeqMonotonic
  <2> DEFINE resources == Joined(order, todo)
  <2>4. Begin(rest, resources)
    BY <2>1 DEF Joined
  <2>5. resources \in Seq(Resources) /\ resources # <<>>
    BY <1>2, <2>3, Joins
  <2>6. /\ \A n \in DOMAIN order : n \in DOMAIN resources /\ resources[n] = order[n]
        /\ \A n \in DOMAIN todo : n # 1 => \E k \in DOMAIN resources : resources[k] = todo[n]
    BY <1>2, <2>3, Joins
  <2> HIDE DEF resources
  <2>7. Quiet /\ (Goes(rest, resources) \/ Ends)
    BY <1>2, <2>4, <2>5, BeginGoes
  <2>8. CASE Goes(rest, resources)
    <3>1. ASSUME mode = "trash", rest[1] \in Folders, Calm, NEW r \in Held(rest[1])
          PROVE  Coming(r, resources) \/ (local'[r] = local[r] /\ Fetched(r))
      <4>1. Coming(r, todo) \/ Fetched(r)
        BY <1>1, <3>1 DEF TrashInv, FolderSafe, FetchCalls
      <4>2. r \in Resources /\ r[1] \notin Folders /\ There(r)
        BY <3>1, ConstantsAssumption DEF Held
      <4>3. CASE Meant(r, todo[1])
        <5>1. r[1] \in Within[todo[1][1]]
          BY <1>2, <4>2, <4>3 DEF Meant, Inside
        <5>2. PICK q \in Listing(todo[1][1]) : Meant(r, q)
          BY <1>2, <4>2, <5>1, AllIsListed
        <5> QED
          BY <1>5, <2>3, <2>6, <3>1, <5>2 DEF Coming
      <4>4. CASE \E n \in DOMAIN todo : n # 1 /\ Meant(r, todo[n])
        BY <2>6, <4>4 DEF Coming
      <4>5. CASE Fetched(r)
        <5>1. CASE r = resources[1]
          BY <2>5, <5>1, LenProperties, EmptySeq DEF Coming, Meant
        <5>2. CASE r # resources[1]
          BY <2>8, <4>2, <4>5, <5>2 DEF Goes
        <5> QED
          BY <5>1, <5>2
      <4> QED
        BY <4>1, <4>3, <4>4, <4>5 DEF Coming
    <3>2. UNCHANGED content
      BY <1>1 DEF server
    <3> QED
      BY <1>3, <2>7, <2>8, <3>1, <3>2, GoesSafe
  <2> QED
    BY <2>7, <2>8, EndsSafe
<1> QED
  BY <1>6, <1>7

\* While a file is fetched.
LEMMA ExistsAnsweredSafe == ASSUME TypeInv, TrashInv, ExistsAnswered PROVE TrashInv'
<1>1. /\ pc = "exists" /\ todo \in Seq(Resources) /\ todo # <<>> /\ todo[1][1] \in Files
      /\ rest \in Seq(Items) /\ rest # <<>> /\ UNCHANGED content
  BY DEF TypeInv, JobOK, Kinds, FetchCalls, ExistsAnswered, Answered, server
<1>2. Quiet /\ (Goes(rest, todo) \/ Ends)
  BY <1>1, GetGoes DEF ExistsAnswered
<1>3. CASE Goes(rest, todo)
  <2>1. rest[1] \in Files => todo[1] = <<rest[1], "data">>
    BY <1>1 DEF TrashInv, Shape, FetchCalls, Top
  <2>2. mode = "trash" /\ rest[1] \in Folders /\ Calm =>
           \A r \in Held(rest[1]) : Coming(r, todo) \/ Fetched(r)
    BY <1>1 DEF TrashInv, FolderSafe, FetchCalls
  <2>3. \A r \in Held(rest[1]) : Coming(r, todo) \/ local'[r] = local[r]
    BY <1>1, <1>3, LenProperties, EmptySeq DEF Goes, Held, Coming, Meant
  <2> QED
    BY <1>1, <1>2, <1>3, <2>1, <2>2, <2>3, GoesSafe
<1> QED
  BY <1>2, <1>3, EndsSafe

LEMMA GetAnsweredSafe == ASSUME TypeInv, TrashInv, GetAnswered \/ GetRezAnswered PROVE TrashInv'
<1>1. /\ pc \in {"get", "getRez"} /\ pc \in LockCalls \cup FetchCalls /\ answer # "waiting"
      /\ UNCHANGED content
  BY DEF GetAnswered, GetRezAnswered, Answered, FetchCalls, server
<1>2. answer # "failed" /\ Sound => Fetched(todo[1])
  BY <1>1 DEF TrashInv, FileSafe, Sound
<1>3. CASE Done(answer # "failed")
  BY <1>1, <1>2, <1>3, DoneSafe
<1>4. CASE Continue("getRez") /\ UNCHANGED trouble /\ answer # "failed"
  <2>1. /\ pc' = "getRez" /\ answer' = "waiting"
        /\ UNCHANGED <<mode, rest, todo, listed, muted, local, content, trouble>>
    BY <1>1, <1>4 DEF Continue, Call, job, flags, disk
  <2>2. Shape'
    BY <1>1, <2>1 DEF TrashInv, Shape, Top, LockCalls, FetchCalls
  <2>3. FileSafe'
    BY <1>2, <1>4, <2>1 DEF TrashInv, FileSafe, Sound, Fetched
  <2>4. FolderSafe'
    <3>1. /\ Held(rest[1])' = Held(rest[1]) /\ (Calm' <=> Calm)
          /\ \A r : (Fetched(r)' <=> Fetched(r)) /\ (Coming(r, todo)' <=> Coming(r, todo))
      BY <2>1 DEF Held, There, Calm, Fetched, Coming, Meant, Inside
    <3> QED
      BY <1>1, <1>4, <2>1, <3>1 DEF TrashInv, FolderSafe, FetchCalls
  <2> QED
    BY <2>2, <2>3, <2>4 DEF TrashInv
<1> QED
  <2>1. answer = "failed" => (answer # "failed") = FALSE
    OBVIOUS
  <2>2. answer # "failed" => (answer # "failed") = TRUE
    OBVIOUS
  <2> QED
    BY <1>3, <1>4, <2>1, <2>2 DEF GetAnswered, GetRezAnswered

\* What is locked first is not moved to the trash.
LEMMA LockAnsweredSafe ==
    ASSUME TypeInv, TrashInv, UNCHANGED server, pc \in LockCalls,
           \/ Done(FALSE)
           \/ Fetch(rest, todo)
           \/ \E name \in LockCalls : Continue(name) /\ UNCHANGED trouble
    PROVE  TrashInv'
<1>1. mode # "trash" /\ pc \in LockCalls \cup FetchCalls /\ UNCHANGED content
  BY DEF TrashInv, Shape, server
<1>2. todo \in Seq(Resources) /\ todo # <<>> /\ rest \in Seq(Items)
  BY <1>1 DEF TypeInv, JobOK, Kinds
<1>3. rest[1] \in Files => todo[1] = <<rest[1], "data">>
  BY <1>1 DEF TrashInv, Shape, Top
<1>4. CASE Done(FALSE)
  BY <1>1, <1>4, DoneSafe
<1>5. CASE Fetch(rest, todo)
  <2>1. Quiet /\ (Goes(rest, todo) \/ Ends)
    BY <1>2, <1>5, FetchGoes
  <2> QED
    BY <1>1, <1>3, <2>1, EndsSafe, GoesSafe
<1>6. ASSUME NEW name \in LockCalls, Continue(name), UNCHANGED trouble PROVE TrashInv'
  <2>1. /\ pc' = name /\ answer' = "waiting"
        /\ UNCHANGED <<mode, rest, todo, listed, muted, local, content, trouble>>
    BY <1>1, <1>6 DEF Continue, Call, job, flags, disk
  <2>2. Shape'
    BY <1>1, <1>6, <2>1 DEF TrashInv, Shape, Top, LockCalls, FetchCalls
  <2>3. FileSafe' /\ FolderSafe'
    BY <1>1, <1>6, <2>1 DEF TrashInv, FileSafe, Sound, FolderSafe, LockCalls, FetchCalls, Calm
  <2> QED
    BY <2>2, <2>3 DEF TrashInv
<1> QED
  BY <1>4, <1>5, <1>6

LEMMA ThreadSafe == ASSUME TypeInv, TreeThere, TrashInv, Thread PROVE TrashInv'
<1>1. CASE Started
  <2>1. pc = "start" /\ rest \in Seq(Items) /\ rest # <<>> /\ UNCHANGED content
    BY <1>1 DEF Started, TypeInv, JobOK, server
  <2>2. CASE Finish /\ UNCHANGED trouble
    <3>1. Ends /\ Quiet
      BY <2>2 DEF Finish, Call, Ends, Quiet
    <3> QED
      BY <3>1, EndsSafe
  <2>3. CASE BeginTop(rest)
    <3>1. <<rest[1], "data">> \in Resources
      BY <2>1, ResourceTypes, ElementOfSeq, EmptySeq
    <3>2. Quiet /\ (Goes(rest, << <<rest[1], "data">> >>) \/ Ends)
      BY <2>1, <2>3, <3>1, Single, BeginGoes DEF BeginTop
    <3> QED
      BY <2>1, <3>2, EndsSafe, TopBegun
  <2> QED
    BY <1>1, <2>2, <2>3 DEF Started
<1>2. CASE DeleteAnswered
  <2>1. pc # "idle" /\ NextTop /\ UNCHANGED content
    BY <1>2 DEF DeleteAnswered, Answered, server
  <2>2. /\ Quiet
        /\ Ends \/ \E items \in Seq(Items) : items # <<>> /\ Goes(items, << <<items[1], "data">> >>)
    BY <2>1, NextTopGoes
  <2> QED
    BY <2>1, <2>2, EndsSafe, TopBegun
<1>3. CASE LockAnswered \/ PropsAnswered \/ ExistsLockAnswered
  <2>1. pc \in LockCalls /\ UNCHANGED server
    BY <1>3 DEF LockAnswered, PropsAnswered, ExistsLockAnswered, Answered, LockCalls
  <2>2. \/ Done(FALSE)
        \/ Fetch(rest, todo)
        \/ \E name \in LockCalls : Continue(name) /\ UNCHANGED trouble
    BY <1>3 DEF LockAnswered, PropsAnswered, ExistsLockAnswered, LockCalls
  <2> QED
    BY <2>1, <2>2, LockAnsweredSafe
<1>4. CASE LockRezAnswered \/ PropsRezAnswered \/ RollbackAnswered
  <2>1. pc \in LockCalls /\ UNCHANGED server
    BY <1>4 DEF LockRezAnswered, PropsRezAnswered, RollbackAnswered, Answered, LockCalls
  <2>2. \/ Done(FALSE)
        \/ Fetch(rest, todo)
        \/ \E name \in LockCalls : Continue(name) /\ UNCHANGED trouble
    BY <1>4 DEF LockRezAnswered, PropsRezAnswered, RollbackAnswered, LockCalls
  <2> QED
    BY <2>1, <2>2, LockAnsweredSafe
<1> QED
  BY <1>1, <1>2, <1>3, <1>4, ListAnsweredSafe, ExistsAnsweredSafe, GetAnsweredSafe DEF Thread

LEMMA CommandSafe == ASSUME TypeInv, TrashInv, Command \/ CancelOperation PROVE TrashInv'
<1>1. CASE Command
  <2>1. /\ pc' = "start" /\ answer' = "waiting" /\ muted' = FALSE /\ listed' = {}
    BY <1>1 DEF Command, Download, MoveItemsToTrash, Start, Call
  <2>2. UNCHANGED content
    BY <1>1 DEF Command, Download, MoveItemsToTrash, Start, server
  <2>3. Quiet
    BY <1>1 DEF Command, Download, MoveItemsToTrash, Noted, When, Quiet
  <2>4. Shape'
    BY <2>1 DEF Shape, LockCalls, FetchCalls
  <2>5. FileSafe' /\ FolderSafe'
    BY <2>1, <2>3 DEF TrashInv, FileSafe, Sound, FolderSafe, Quiet, Calm, FetchCalls
  <2> QED
    BY <2>4, <2>5 DEF TrashInv
<1>2. CASE CancelOperation
  <2>1. PICK single \in BOOLEAN :
           /\ single => mode # "trash"
           /\ muted' = single
           /\ IF single THEN Fail ELSE UNCHANGED <<answer, disk, listed>>
    BY <1>2 DEF CancelOperation
  <2>2. UNCHANGED <<content, pc, mode, rest, todo>> /\ Quiet
    BY <1>2 DEF CancelOperation, server, job, Noted, Quiet
  <2>3. CASE mode # "trash"
    <3>1. listed' \subseteq listed /\ (answer' = "failed" \/ UNCHANGED <<answer, local>>)
      BY <2>1 DEF Fail, disk
    <3>2. Shape'
      BY <2>2, <2>3, <3>1 DEF TrashInv, Shape, Top
    <3>3. FileSafe'
      <4>1. CASE answer' = "failed"
        BY <2>2, <2>3, <4>1 DEF TrashInv, Shape, FileSafe, Sound, Quiet
      <4>2. CASE UNCHANGED <<answer, local>>
        BY <2>2, <4>2 DEF TrashInv, FileSafe, Sound, Quiet, Fetched, Top
      <4> QED
        BY <3>1, <4>1, <4>2
    <3>4. FolderSafe'
      BY <2>2, <2>3 DEF TrashInv, FolderSafe, Quiet, Calm
    <3> QED
      BY <3>2, <3>3, <3>4 DEF TrashInv
  <2>4. CASE mode = "trash"
    <3>1. UNCHANGED <<answer, local, listed>> /\ muted' = FALSE
      BY <2>1, <2>4 DEF disk
    <3>2. Shape'
      BY <2>2, <3>1 DEF TrashInv, Shape, Top
    <3>3. FileSafe'
      BY <2>2, <3>1 DEF TrashInv, FileSafe, Sound, Quiet, Fetched, Top
    <3>4. /\ Held(rest[1])' = Held(rest[1]) /\ (Calm' => Calm)
          /\ Listing(todo[1][1])' = Listing(todo[1][1])
          /\ \A r : Fetched(r)' = Fetched(r) /\ (Coming(r, todo)' <=> Coming(r, todo))
      BY <2>2, <3>1 DEF Held, Listing, There, Fetched, Calm, Quiet, Coming, Meant, Inside
    <3>5. FolderSafe'
      BY <2>2, <3>1, <3>4 DEF TrashInv, FolderSafe, Quiet
    <3> QED
      BY <3>2, <3>3, <3>5 DEF TrashInv
  <2> QED
    BY <2>3, <2>4
<1> QED
  BY <1>1, <1>2

\* A call that failed is noted, but for one of a request that was canceled.
LEMMA FailSafe == ASSUME TypeInv, TrashInv, Refuse \/ CallFails PROVE TrashInv'
<1>1. /\ UNCHANGED <<content, pc, mode, rest, todo, muted>> /\ trouble \subseteq trouble'
      /\ answer' = "failed" /\ listed' = {}
      /\ trouble' \subseteq trouble \cup {"foreign", "lost"}
      /\ ~muted => ~Calm'
  BY DEF Refuse, CallFails, Fail, Noted, Calm, server, job
<1>2. Shape'
  BY <1>1 DEF TrashInv, Shape, Top
<1>3. FileSafe'
  BY <1>1 DEF TrashInv, FileSafe, Sound
<1>4. FolderSafe'
  <2>1. mode = "trash" => ~Calm'
    BY <1>1 DEF TrashInv, Shape
  <2>2. Calm' => Calm /\ "lostInside" \notin trouble'
    BY <1>1 DEF TrashInv, FolderSafe, Calm
  <2> QED
    BY <1>1, <2>1, <2>2 DEF FolderSafe
<1> QED
  BY <1>2, <1>3, <1>4 DEF TrashInv

\* An answer that changes neither the content nor what was fetched.
LEMMA AnswerSafe ==
    ASSUME TypeInv, TrashInv, answer = "waiting", answer' # "failed",
           UNCHANGED <<content, pc, mode, rest, todo, muted, local, trouble>>,
           pc \notin {"get", "delete"},
           pc = "list" => listed' = Listing(todo[1][1]),
           pc # "list" => UNCHANGED listed
    PROVE  TrashInv'
<1>1. Shape'
  BY DEF TrashInv, Shape, Top
<1>2. FileSafe'
  BY DEF TrashInv, FileSafe, Sound, Fetched
<1>3. FolderSafe'
  <2>1. /\ Held(rest[1])' = Held(rest[1]) /\ (Calm' <=> Calm)
        /\ Listing(todo[1][1])' = Listing(todo[1][1])
        /\ \A r : Fetched(r)' = Fetched(r) /\ (Coming(r, todo)' <=> Coming(r, todo))
    BY DEF Held, Listing, There, Fetched, Calm, Coming, Meant, Inside
  <2> QED
    BY <2>1 DEF TrashInv, FolderSafe
<1> QED
  BY <1>1, <1>2, <1>3 DEF TrashInv

\* A GET that garbles is noted.
LEMMA GarbledSafe ==
    ASSUME TrashInv, UNCHANGED <<pc, mode, rest, todo, muted>>, "garbled" \in trouble'
    PROVE  TrashInv'
<1>1. Shape'
  BY DEF TrashInv, Shape, Top
<1>2. ~Sound' /\ ~Calm'
  BY DEF Sound, Calm
<1> QED
  BY <1>1, <1>2 DEF TrashInv, FileSafe, FolderSafe

LEMMA ServeSafe == ASSUME TypeInv, TrashInv, Serve PROVE TrashInv'
<1>0. /\ UNCHANGED <<pc, mode, rest, todo, muted>> /\ answer = "waiting"
      /\ pc # "list" => UNCHANGED listed
  BY DEF Serve, job
<1>1. ASSUME NEW q, ServeExists(q) \/ ServeProps(q), pc \notin {"list", "get", "delete"} PROVE TrashInv'
  <2>1. answer' # "failed" /\ UNCHANGED <<content, local, trouble>>
    BY <1>1 DEF ServeExists, ServeProps, Respond, server, disk
  <2> QED
    BY <1>0, <1>1, <2>1, AnswerSafe
<1>2. ASSUME NEW q, ServeLock(q) \/ ServeUnlock(q), pc \notin {"list", "get", "delete"} PROVE TrashInv'
  <2>1. answer' # "failed" /\ UNCHANGED <<content, local, trouble>>
    BY <1>2 DEF ServeLock, ServeUnlock, Respond, disk
  <2> QED
    BY <1>0, <1>2, <2>1, AnswerSafe
<1>3. CASE pc = "list" /\ ServeList(todo[1][1])
  <2>1. answer' # "failed" /\ UNCHANGED <<content, local, trouble>> /\ listed' = Listing(todo[1][1])
    BY <1>3 DEF ServeList, Respond, server, disk, Listing
  <2> QED
    BY <1>0, <1>3, <2>1, AnswerSafe
<1>4. CASE pc = "getRez" /\ ServeGet(<<todo[1][1], "rez">>)
  <2>1. answer' # "failed" /\ UNCHANGED <<content, local>> /\ ("garbled" \in trouble' \/ UNCHANGED trouble)
    BY <1>4, GetIs DEF server
  <2> QED
    BY <1>0, <1>4, <2>1, AnswerSafe, GarbledSafe
<1>5. CASE pc = "get" /\ ServeGet(todo[1])
  <2>1. todo \in Seq(Resources) /\ todo # <<>>
    BY <1>5 DEF TypeInv, JobOK, Kinds, FetchCalls
  <2>2. todo[1] \in Resources
    BY <2>1, ElementOfSeq, EmptySeq
  <2>0. SUFFICES ASSUME "garbled" \notin trouble' PROVE TrashInv'
    BY <1>0, GarbledSafe
  <2>3. /\ local' = [local EXCEPT ![todo[1]] = content[todo[1]]] /\ answer' = "ok"
        /\ UNCHANGED <<content, trouble, listed>>
    BY <1>0, <1>5, <2>0, GetIs DEF server
  <2>4. Fetched(todo[1])' /\ \A r \in Resources : Fetched(r) => Fetched(r)'
    BY <1>0, <2>2, <2>3 DEF Fetched, TypeInv, DiskOK
  <2>5. /\ Held(rest[1])' = Held(rest[1]) /\ (Calm' <=> Calm) /\ Held(rest[1]) \subseteq Resources
        /\ \A r : Coming(r, todo)' <=> Coming(r, todo)
    BY <1>0, <2>3 DEF Held, There, Calm, Coming, Meant, Inside
  <2>6. Shape'
    BY <1>0, <2>3 DEF TrashInv, Shape, Top
  <2>7. FileSafe'
    BY <1>0, <1>5, <2>3, <2>4 DEF TrashInv, FileSafe, Sound
  <2>8. FolderSafe'
    BY <1>0, <1>5, <2>3, <2>4, <2>5 DEF TrashInv, FolderSafe
  <2> QED
    BY <2>6, <2>7, <2>8 DEF TrashInv
<1>6. CASE pc = "delete" /\ ServeDelete(rest[1])
  <2>1. PICK gone \in SUBSET Resources :
           /\ \A r \in gone : There(r) /\ (r = Top \/ Inside(r[1], rest[1]))
           /\ \E facts \in SUBSET {"partial"} :
                 Noted(When(\E r \in gone : ~Saved(r) /\ r[1] = rest[1], "lostTop")
                       \cup When(\E r \in gone : ~Saved(r) /\ r[1] # rest[1], "lostInside")
                       \cup facts)
    <3>1. Gone(rest[1]) \in SUBSET Resources
      BY DEF Gone, Under
    <3>2. \A r \in Gone(rest[1]) : There(r) /\ (r = Top \/ Inside(r[1], rest[1]))
      BY DEF Gone, Under, Top
    <3>3. When(HeldBack(rest[1]) # {}, "partial") \in SUBSET {"partial"}
      BY DEF When
    <3>4. Noted(When(\E r \in Gone(rest[1]) : ~Saved(r) /\ r[1] = rest[1], "lostTop")
                \cup When(\E r \in Gone(rest[1]) : ~Saved(r) /\ r[1] # rest[1], "lostInside")
                \cup When(HeldBack(rest[1]) # {}, "partial"))
      BY <1>6, DeleteIs
    <3> QED
      BY <3>1, <3>2, <3>3, <3>4
  <2>2. /\ trouble \subseteq trouble' /\ trouble' \subseteq trouble \cup {"lostTop", "lostInside", "partial"}
        /\ (\A r \in gone : r[1] = rest[1] => Saved(r)) /\ "lostTop" \notin trouble => "lostTop" \notin trouble'
        /\ (\A r \in gone : r[1] # rest[1] => Saved(r)) /\ "lostInside" \notin trouble => "lostInside" \notin trouble'
    BY <2>1 DEF Noted, When
  <2>3. answer' = "ok" /\ mode = "trash" /\ UNCHANGED listed
    BY <1>0, <1>6 DEF ServeDelete, Respond, TrashInv, Shape
  <2>4. Shape'
    BY <1>0, <2>3 DEF TrashInv, Shape, Top
  <2>5. FileSafe'
    <3>1. ASSUME Sound', NEW r \in gone, r[1] = rest[1] PROVE Saved(r)
      <4>1. rest[1] \in Items
        BY <1>6, ElementOfSeq, EmptySeq DEF TypeInv, JobOK
      <4>2. CASE rest[1] \in Folders
        BY <3>1, <4>2 DEF Saved
      <4>3. CASE rest[1] \notin Folders
        <5>1. r = Top /\ rest[1] \in Files
          BY <2>1, <4>1, <4>3 DEF Items, Inside
        <5>2. Fetched(Top)
          BY <1>0, <1>6, <2>2, <3>1, <5>1 DEF TrashInv, FileSafe, Sound
        <5> QED
          BY <5>1, <5>2 DEF Saved, Fetched
      <4> QED
        BY <4>2, <4>3
    <3> QED
      BY <1>0, <1>6, <2>2, <2>3, <3>1 DEF TrashInv, FileSafe, Sound
  <2>6. FolderSafe'
    <3>1. Calm' => Calm
      BY <2>2 DEF Calm
    <3>2. ASSUME Calm, NEW r \in gone, r[1] # rest[1] PROVE Saved(r)
      <4>1. rest[1] \in Folders /\ r[1] \in Within[rest[1]] /\ There(r)
        BY <2>1, <3>2 DEF Top, Inside
      <4>2. CASE r[1] \in Folders
        BY <4>2 DEF Saved
      <4>3. CASE r[1] \notin Folders
        <5>1. r \in Held(rest[1])
          BY <4>1, <4>3, ResourceTypes DEF Held
        <5>2. Fetched(r)
          BY <1>0, <1>6, <2>3, <3>2, <4>1, <5>1 DEF TrashInv, FolderSafe
        <5> QED
          BY <5>2 DEF Saved, Fetched
      <4> QED
        BY <4>2, <4>3
    <3> QED
      BY <1>0, <1>6, <2>2, <2>3, <3>1, <3>2 DEF TrashInv, FolderSafe, FetchCalls
  <2> QED
    BY <2>4, <2>5, <2>6 DEF TrashInv
<1> QED
  BY ServeCases, <1>1, <1>2, <1>3, <1>4, <1>5, <1>6

\* What other clients do during a command is noted.
LEMMA OthersSafe ==
    ASSUME TypeInv, TrashInv, NEW r \in Resources,
           OtherWrites(r) \/ OtherDeletes(r) \/ OtherLocks(r) \/ LockEnds(r)
    PROVE  TrashInv'
<1>1. /\ UNCHANGED <<pc, answer, mode, rest, todo, muted, local, listed>>
      /\ trouble \subseteq trouble' /\ trouble' \subseteq trouble \cup {"raced", "ended"}
      /\ UNCHANGED content \/ "raced" \in trouble' \/ pc = "idle"
  BY DEF OtherWrites, OtherDeletes, OtherLocks, LockEnds, Noted, When, Idle, disk, job, flags
<1>2. Shape'
  BY <1>1 DEF TrashInv, Shape, Top
<1>3. FileSafe'
  BY <1>1 DEF TrashInv, FileSafe, Sound, Fetched, Top
<1>4. FolderSafe'
  <2>1. Calm' => Calm /\ "raced" \notin trouble' /\ "lostInside" \notin trouble'
    BY <1>1 DEF TrashInv, FolderSafe, Calm
  <2>2. CASE UNCHANGED content
    <3>1. /\ Held(rest[1])' = Held(rest[1]) /\ Listing(todo[1][1])' = Listing(todo[1][1])
          /\ \A q : Fetched(q)' = Fetched(q) /\ (Coming(q, todo)' <=> Coming(q, todo))
      BY <1>1, <2>2 DEF Held, Listing, There, Fetched, Coming, Meant, Inside
    <3> QED
      BY <1>1, <2>1, <3>1 DEF TrashInv, FolderSafe
  <2>3. CASE pc = "idle"
    BY <1>1, <2>1, <2>3 DEF TrashInv, FolderSafe, FetchCalls
  <2> QED
    BY <1>1, <2>1, <2>2, <2>3 DEF FolderSafe
<1> QED
  BY <1>2, <1>3, <1>4 DEF TrashInv

LEMMA TrashStep == TypeInv /\ TreeThere /\ TrashInv /\ [Next]_vars => TrashInv'
<1> SUFFICES ASSUME TypeInv, TreeThere, TrashInv, [Next]_vars PROVE TrashInv'
  OBVIOUS
<1>1. CASE UNCHANGED vars
  <2>1. UNCHANGED <<content, pc, answer, mode, rest, todo, muted, local, listed, trouble>>
    BY <1>1 DEF vars, server, job, flags, disk
  <2>2. Shape' /\ FileSafe'
    BY <2>1 DEF TrashInv, Shape, FileSafe, Sound, Top, Fetched
  <2>3. FolderSafe'
    <3>1. /\ Held(rest[1])' = Held(rest[1]) /\ Listing(todo[1][1])' = Listing(todo[1][1])
          /\ \A q : Fetched(q)' = Fetched(q) /\ (Coming(q, todo)' <=> Coming(q, todo))
      BY <2>1 DEF Held, Listing, There, Fetched, Coming, Meant, Inside
    <3> QED
      BY <2>1, <3>1 DEF TrashInv, FolderSafe, Calm
  <2> QED
    BY <2>2, <2>3 DEF TrashInv
<1> QED
  BY <1>1, CommandSafe, ThreadSafe, ServeSafe, FailSafe, OthersSafe DEF Next

LEMMA TrashInit == Init => TrashInv
  BY DEF Init, TrashInv, Shape, FileSafe, Sound, FolderSafe, LockCalls, FetchCalls

\* No selected file is deleted that the trash does not have with the server's content,
\* whatever calls failed before, whichever items the selection holds and in whatever order
\* (CMoveItemsToTrashThread deletes after _downloadResource has returned true), as long as
\* a GET that succeeds brings that content and no other client writes meanwhile.
THEOREM FilesAreSaved == Spec => []TrashedFilesAreSaved
<1>1. TrashInv => TrashedFilesAreSaved
  BY DEF TrashInv, FileSafe, Sound, TrashedFilesAreSaved
<1> QED
  BY TypeInit, TypeStep, TreeInit, TreeStep, TrashInit, TrashStep, <1>1, PTL DEF Spec

\* Nothing inside a selected folder is deleted that the trash does not have, if no call
\* failed, no GET garbled and no other client wrote: the walk of _downloadResource leaves
\* nothing out.
THEOREM FoldersAreSaved == Spec => []TrashedFoldersAreSaved
<1>1. TrashInv => TrashedFoldersAreSaved
  BY DEF TrashInv, FolderSafe, TrashedFoldersAreSaved, Calm
<1> QED
  BY TypeInit, TypeStep, TreeInit, TreeStep, TrashInit, TrashStep, <1>1, PTL DEF Spec
-----------------------------------------------------------------------------
\* Locks.  Nothing was lost on the way, nothing ran out and nothing was canceled.
Undisturbed == trouble \cap {"lost", "ended", "canceled"} = {}
Rez == <<todo[1][1], "rez">>

\* The thread knows that this client has the lock of a resource.
SureOf(r) ==
    \/ r = todo[1] /\ \/ pc = "lock" /\ answer = "ok"
                      \/ pc \in {"props", "existsLock", "lockRez", "propsRez"}
                      \/ pc = "rollback" /\ answer = "waiting"
    \/ r = Rez /\ ((pc = "lockRez" /\ answer = "ok") \/ pc = "propsRez")

\* It has yet to put it on record, or to take it off.
Unsettled(r) ==
    \/ r = todo[1] /\ ((pc \in {"lock", "rollback"} /\ answer = "ok") \/ pc = "props")
    \/ r = Rez /\ ((pc = "lockRez" /\ answer = "ok") \/ pc = "propsRez")

LockInv ==
    Undisturbed =>
       /\ ~muted
       /\ pc \in {"props", "propsRez", "rollback"} => answer # "failed"
       /\ pc = "rollback" /\ answer = "ok" => lock[todo[1]] # "ours"
       /\ \A r \in Resources : /\ lock[r] = "ours" => There(r)
                               /\ SureOf(r) => lock[r] = "ours"
                               /\ ~Unsettled(r) => (lock[r] = "ours" <=> r \in record)

\* Calls about which nothing is to be put on record.
Settled == pc \notin LockCalls \/ (pc = "lock" /\ answer # "ok")

LEMMA LockSettles ==
    ASSUME LockInv, UNCHANGED server, Quiet, Settled', (muted' => muted),
           Undisturbed => \A r \in Resources : lock[r] = "ours" <=> r \in record'
    PROVE  LockInv'
<1>1. SUFFICES ASSUME Undisturbed' PROVE LockInv'
  BY DEF LockInv
<1>2. Undisturbed
  BY <1>1 DEF Undisturbed, Quiet
<1>3. UNCHANGED <<lock, content>>
  BY DEF server
<1>4. ~muted' /\ pc' \notin {"props", "propsRez", "rollback"}
  BY <1>2 DEF LockInv, Settled, LockCalls
<1>5. \A r : ~SureOf(r)' /\ ~Unsettled(r)'
  BY <1>4 DEF Settled, LockCalls, SureOf, Unsettled
<1>6. \A r \in Resources : /\ lock[r] = "ours" => There(r)
                           /\ lock[r] = "ours" <=> r \in record'
  BY <1>2 DEF LockInv
<1>7. \A r : There(r)' = There(r)
  BY <1>3 DEF There
<1> QED
  BY <1>3, <1>4, <1>5, <1>6, <1>7 DEF LockInv

\* The thread is done with a resource, goes on to fetch it, or to the next one.
LEMMA LockMoves ==
    ASSUME TypeInv, LockInv, UNCHANGED server,
           \/ pc \in LockCalls \cup FetchCalls /\ \E ok \in BOOLEAN : Done(ok)
           \/ pc \in LockCalls \cup FetchCalls /\ Fetch(rest, todo)
           \/ pc # "idle" /\ (NextTop \/ (Finish /\ UNCHANGED trouble) \/ BeginTop(rest)),
           Undisturbed => \A r \in Resources : lock[r] = "ours" <=> r \in record'
    PROVE  LockInv'
<1>0. rest \in Seq(Items) /\ todo \in Seq(Resources) /\ (pc # "idle" => rest # <<>>)
  BY DEF TypeInv, JobOK
<1>1. Quiet /\ (Ends \/ Deletes \/ \E items, resources : Goes(items, resources))
  <2>1. CASE pc \in LockCalls \cup FetchCalls /\ \E ok \in BOOLEAN : Done(ok)
    BY <2>1, DoneGoes
  <2>2. CASE pc \in LockCalls \cup FetchCalls /\ Fetch(rest, todo)
    <3>1. todo # <<>>
      BY <2>2 DEF TypeInv, JobOK, Kinds
    <3> QED
      BY <1>0, <2>2, <3>1, FetchGoes
  <2>3. CASE pc # "idle" /\ NextTop
    BY <2>3, NextTopGoes
  <2>4. CASE Finish /\ UNCHANGED trouble
    BY <2>4 DEF Finish, Call, Ends, Quiet
  <2>5. CASE pc # "idle" /\ BeginTop(rest)
    <3>1. <<rest[1], "data">> \in Resources
      BY <1>0, <2>5, ResourceTypes, ElementOfSeq, EmptySeq
    <3> QED
      BY <1>0, <2>5, <3>1, Single, BeginGoes DEF BeginTop
  <2> QED
    BY <2>1, <2>2, <2>3, <2>4, <2>5
<1>2. Settled' /\ (muted' => muted)
  BY <1>1 DEF Ends, Deletes, Goes, Settled, LockCalls
<1> QED
  BY <1>1, <1>2, LockSettles

\* A call that is about a lock is followed by another one.
LEMMA LockContinues ==
    ASSUME LockInv, UNCHANGED server,
           NEW name \in {"getRez", "props", "existsLock", "lockRez", "propsRez", "rollback"},
           Continue(name), UNCHANGED trouble,
           Undisturbed => \A r \in Resources :
               /\ SureOf(r)' => lock[r] = "ours"
               /\ ~Unsettled(r)' => (lock[r] = "ours" <=> r \in record')
    PROVE  LockInv'
<1>1. /\ UNCHANGED <<lock, content, muted, trouble, todo>> /\ answer' = "waiting"
      /\ Undisturbed' = Undisturbed
  BY DEF server, Continue, Call, job, flags, Undisturbed
<1>2. \A r : There(r)' = There(r)
  BY <1>1 DEF There
<1> QED
  BY <1>1, <1>2 DEF LockInv

\* What a listing brought is gone through.
LEMMA LockListAnswered == ASSUME TypeInv, LockInv, ListAnswered PROVE LockInv'
<1>1. pc = "list" /\ pc \in FetchCalls /\ UNCHANGED <<server, record>>
  BY DEF ListAnswered, Answered, FetchCalls
<1>2. Undisturbed => \A r \in Resources : lock[r] = "ours" <=> r \in record'
  BY <1>1 DEF LockInv, Unsettled
<1>3. /\ todo \in Seq(Resources) /\ todo # <<>> /\ rest \in Seq(Items) /\ rest # <<>>
      /\ listed \subseteq Resources
  BY <1>1 DEF TypeInv, JobOK, Kinds, FlagsOK
<1>4. PICK found \in SUBSET listed :
         IF found = {} THEN Done(TRUE)
         ELSE \E order \in SetToSeqs(found) : Begin(rest, order \o Tail(todo))
  BY DEF ListAnswered
<1>5. CASE found = {}
  BY <1>1, <1>2, <1>4, <1>5, LockMoves
<1>6. CASE found # {}
  <2>1. PICK order \in SetToSeqs(found) : Begin(rest, order \o Tail(todo))
    BY <1>4, <1>6
  <2>2. found \subseteq Resources
    BY <1>3
  <2>3. order \in Seq(Resources) /\ order # <<>>
    BY <1>6, <2>1, <2>2, FiniteResources, Orders, SeqMonotonic
  <2>4. Tail(todo) \in Seq(Resources)
    BY <1>3, HeadTailProperties
  <2>5. order \o Tail(todo) \in Seq(Resources) /\ order \o Tail(todo) # <<>>
    BY <2>3, <2>4, ConcatProperties, ConcatEqualIffEmpty
  <2>6. Quiet /\ (Ends \/ Goes(rest, order \o Tail(todo)))
    BY <1>3, <2>1, <2>5, BeginGoes
  <2>7. Settled' /\ (muted' => muted)
    BY <2>6 DEF Ends, Goes, Settled, LockCalls
  <2> QED
    BY <1>1, <1>2, <2>6, <2>7, LockSettles
<1> QED
  BY <1>5, <1>6

LEMMA LockFetchAnswered ==
    ASSUME TypeInv, LockInv, ExistsAnswered \/ GetAnswered \/ GetRezAnswered
    PROVE  LockInv'
<1>1. pc \in {"exists", "get", "getRez"} /\ pc \in FetchCalls /\ UNCHANGED <<server, record>>
  BY DEF ExistsAnswered, GetAnswered, GetRezAnswered, Answered, FetchCalls
<1>2. Undisturbed => \A r \in Resources : lock[r] = "ours" <=> r \in record'
  BY <1>1 DEF LockInv, Unsettled
<1>3. CASE ExistsAnswered
  <2>1. PICK new \in BOOLEAN : Get(rest, todo, new)
    BY <1>3 DEF ExistsAnswered
  <2>2. /\ todo \in Seq(Resources) /\ todo # <<>> /\ todo[1][1] \in Files
        /\ rest \in Seq(Items)
    BY <1>1 DEF TypeInv, JobOK, Kinds
  <2>3. Quiet /\ (Goes(rest, todo) \/ Ends)
    BY <2>1, <2>2, GetGoes
  <2>4. Settled' /\ (muted' => muted)
    BY <2>3 DEF Ends, Goes, Settled, LockCalls
  <2> QED
    BY <1>1, <1>2, <2>3, <2>4, LockSettles
<1>4. CASE Continue("getRez") /\ UNCHANGED trouble
  <2>1. Settled' /\ (muted' => muted) /\ Quiet
    BY <1>4 DEF Continue, Call, Settled, LockCalls, flags, Quiet
  <2> QED
    BY <1>1, <1>2, <2>1, LockSettles
<1>5. CASE \E ok \in BOOLEAN : Done(ok)
  BY <1>1, <1>2, <1>5, LockMoves
<1> QED
  BY <1>3, <1>4, <1>5 DEF GetAnswered, GetRezAnswered

\* The calls about locks: what the thread is sure of is what it puts on record.
LEMMA LockCallAnswered ==
    ASSUME TypeInv, LockInv,
           \/ LockAnswered \/ PropsAnswered \/ ExistsLockAnswered
           \/ LockRezAnswered \/ PropsRezAnswered \/ RollbackAnswered
    PROVE  LockInv'
<1>0. /\ pc \in LockCalls /\ answer # "waiting" /\ UNCHANGED server
      /\ record \subseteq Resources
  BY DEF LockAnswered, PropsAnswered, ExistsLockAnswered, LockRezAnswered, PropsRezAnswered,
         RollbackAnswered, Answered, LockCalls, TypeInv, StoreOK
<1>todo. todo \in Seq(Resources) /\ todo # <<>> /\ todo[1] \in Resources
  <2>1. todo \in Seq(Resources) /\ todo # <<>>
    BY <1>0 DEF TypeInv, JobOK, Kinds
  <2> QED
    BY <2>1, ElementOfSeq, EmptySeq
<1>rez. pc \in {"existsLock", "lockRez", "propsRez", "rollback"} =>
            Rez \in Resources /\ Rez # todo[1] /\ todo[1][2] = "data"
  BY DEF TypeInv, JobOK, Kinds, Rez, Resources
<1>1. CASE LockAnswered
  <2>1. CASE answer = "ok"
    <3>1. Continue("props") /\ UNCHANGED <<trouble, record>> /\ pc = "lock"
      BY <1>1, <2>1 DEF LockAnswered, Answered
    <3>2. pc' = "props" /\ answer' = "waiting" /\ todo' = todo
      BY <3>1 DEF Continue, Call, job
    <3>3. \A r : (SureOf(r)' => SureOf(r)) /\ (Unsettled(r) => Unsettled(r)')
      BY <2>1, <3>1, <3>2 DEF SureOf, Unsettled
    <3> QED
      BY <1>0, <3>1, <3>3, LockContinues DEF LockInv
  <2>2. CASE answer # "ok"
    <3>1. Done(FALSE) /\ UNCHANGED record /\ pc = "lock"
      BY <1>1, <2>2 DEF LockAnswered, Answered
    <3>2. Undisturbed => \A r \in Resources : lock[r] = "ours" <=> r \in record'
      BY <2>2, <3>1 DEF LockInv, Unsettled
    <3> QED
      BY <1>0, <3>1, <3>2, LockMoves
  <2> QED
    BY <2>1, <2>2
<1>2. CASE PropsAnswered
  <2>0. pc = "props"
    BY <1>2 DEF PropsAnswered, Answered
  <2>1. CASE answer = "failed"
    <3>1. ~Undisturbed /\ Done(FALSE)
      BY <1>2, <2>0, <2>1 DEF PropsAnswered, LockInv
    <3> QED
      BY <1>0, <3>1, LockMoves
  <2>2. CASE answer # "failed"
    <3>1. record' = record \cup {todo[1]}
      BY <1>2, <2>2 DEF PropsAnswered
    <3>2. Undisturbed => \A r \in Resources : lock[r] = "ours" <=> r \in record'
      BY <1>todo, <2>0, <3>1 DEF LockInv, Unsettled, SureOf
    <3>3. CASE Continue("existsLock") /\ UNCHANGED trouble
      <4>1. pc' = "existsLock" /\ answer' = "waiting" /\ todo' = todo
        BY <3>3 DEF Continue, Call, job
      <4>2. \A r : SureOf(r)' => SureOf(r)
        BY <2>0, <4>1 DEF SureOf
      <4> QED
        BY <1>0, <3>2, <3>3, <4>2, LockContinues DEF LockInv
    <3>4. CASE Fetch(rest, todo)
      BY <1>0, <3>2, <3>4, LockMoves
    <3> QED
      BY <1>2, <2>2, <3>3, <3>4 DEF PropsAnswered
  <2> QED
    BY <2>1, <2>2
<1>3. CASE ExistsLockAnswered
  <2>0. pc = "existsLock" /\ UNCHANGED record
    BY <1>3 DEF ExistsLockAnswered, Answered
  <2>1. Undisturbed => \A r \in Resources : lock[r] = "ours" <=> r \in record'
    BY <2>0 DEF LockInv, Unsettled
  <2>2. CASE Continue("lockRez") /\ UNCHANGED trouble
    <3>1. pc' = "lockRez" /\ answer' = "waiting" /\ todo' = todo
      BY <2>2 DEF Continue, Call, job
    <3>2. \A r : SureOf(r)' => SureOf(r)
      BY <2>0, <3>1 DEF SureOf
    <3> QED
      BY <1>0, <2>1, <2>2, <3>2, LockContinues DEF LockInv
  <2>3. CASE Fetch(rest, todo)
    BY <1>0, <2>1, <2>3, LockMoves
  <2> QED
    BY <1>3, <2>2, <2>3 DEF ExistsLockAnswered
<1>4. CASE LockRezAnswered
  <2>0. pc = "lockRez" /\ UNCHANGED <<record, trouble>>
    BY <1>4 DEF LockRezAnswered, Answered
  <2>1. CASE answer = "ok"
    <3>1. Continue("propsRez")
      BY <1>4, <2>1 DEF LockRezAnswered
    <3>2. pc' = "propsRez" /\ answer' = "waiting" /\ todo' = todo /\ Rez' = Rez
      BY <3>1 DEF Continue, Call, job, Rez
    <3>3. \A r : (SureOf(r)' => SureOf(r)) /\ (Unsettled(r) => Unsettled(r)')
      BY <2>0, <2>1, <3>2 DEF SureOf, Unsettled
    <3> QED
      BY <1>0, <2>0, <3>1, <3>3, LockContinues DEF LockInv
  <2>2. CASE answer # "ok"
    <3>1. Continue("rollback")
      BY <1>4, <2>2 DEF LockRezAnswered
    <3>2. pc' = "rollback" /\ answer' = "waiting" /\ todo' = todo
      BY <3>1 DEF Continue, Call, job
    <3>3. \A r : (SureOf(r)' => SureOf(r)) /\ ~Unsettled(r)
      BY <2>0, <2>2, <3>2 DEF SureOf, Unsettled
    <3> QED
      BY <1>0, <2>0, <3>1, <3>3, LockContinues DEF LockInv
  <2> QED
    BY <2>1, <2>2
<1>5. CASE PropsRezAnswered
  <2>0. pc = "propsRez"
    BY <1>5 DEF PropsRezAnswered, Answered
  <2>1. CASE answer = "failed"
    <3>1. ~Undisturbed /\ Continue("rollback") /\ UNCHANGED trouble
      BY <1>5, <2>0, <2>1 DEF PropsRezAnswered, LockInv
    <3> QED
      BY <1>0, <3>1, LockContinues
  <2>2. CASE answer # "failed"
    <3>1. record' = record \cup {Rez} /\ Fetch(rest, todo)
      BY <1>5, <2>2 DEF PropsRezAnswered, Rez
    <3>2. Undisturbed => \A r \in Resources : lock[r] = "ours" <=> r \in record'
      BY <1>rez, <2>0, <3>1 DEF LockInv, Unsettled, SureOf
    <3> QED
      BY <1>0, <3>1, <3>2, LockMoves
  <2> QED
    BY <2>1, <2>2
<1>6. CASE RollbackAnswered
  <2>0. pc = "rollback" /\ Done(FALSE)
    BY <1>6 DEF RollbackAnswered, Answered
  <2>1. record' = IF answer = "ok" THEN record \ {todo[1]} ELSE record
    BY <1>6 DEF RollbackAnswered
  <2>2. Undisturbed => \A r \in Resources : lock[r] = "ours" <=> r \in record'
    BY <2>0, <2>1 DEF LockInv, Unsettled
  <2> QED
    BY <1>0, <2>0, <2>2, LockMoves
<1> QED
  BY <1>1, <1>2, <1>3, <1>4, <1>5, <1>6

LEMMA LockThread == ASSUME TypeInv, LockInv, Thread PROVE LockInv'
<1>1. CASE Started
  <2>1. pc = "start" /\ UNCHANGED <<server, record>> /\ ((Finish /\ UNCHANGED trouble) \/ BeginTop(rest))
    BY <1>1 DEF Started
  <2>2. Undisturbed => \A r \in Resources : lock[r] = "ours" <=> r \in record'
    BY <2>1 DEF LockInv, Unsettled
  <2> QED
    BY <2>1, <2>2, LockMoves
<1>2. CASE DeleteAnswered
  <2>1. pc = "delete" /\ UNCHANGED <<server, record>> /\ NextTop
    BY <1>2 DEF DeleteAnswered, Answered
  <2>2. Undisturbed => \A r \in Resources : lock[r] = "ours" <=> r \in record'
    BY <2>1 DEF LockInv, Unsettled
  <2> QED
    BY <2>1, <2>2, LockMoves
<1> QED
  BY <1>1, <1>2, LockListAnswered, LockFetchAnswered, LockCallAnswered DEF Thread

\* The server leaves what is locked; what it locks and unlocks is the thread's to note.
LEMMA LockServe == ASSUME TypeInv, LockInv, Serve PROVE LockInv'
<1>0. /\ UNCHANGED <<pc, rest, todo, muted, record>> /\ answer = "waiting"
      /\ trouble \subseteq trouble'
  <2>1. UNCHANGED <<pc, rest, todo, muted, record>> /\ answer = "waiting"
    BY DEF Serve, job
  <2>2. trouble \subseteq trouble'
    BY ServeCases, GetIs DEF ServeList, ServeExists, ServeLock, ServeProps, ServeUnlock,
                             ServeDelete, Noted
  <2> QED
    BY <2>1, <2>2
<1>u. Undisturbed' => Undisturbed
  BY <1>0 DEF Undisturbed
<1>todo. pc \in LockCalls => todo[1] \in Resources /\ todo[1][1] \in Items
  <2>1. pc \in LockCalls => todo \in Seq(Resources) /\ todo # <<>>
    BY DEF TypeInv, JobOK, Kinds
  <2> QED
    BY <2>1, ElementOfSeq, EmptySeq, ResourceTypes
<1>rez. pc \in {"lockRez", "propsRez", "rollback"} => Rez \in Resources /\ Rez # todo[1]
  BY DEF TypeInv, JobOK, Kinds, Rez, Resources
<1>tops. Rez' = Rez
  BY <1>0 DEF Rez
<1>1. CASE pc \in {"list", "exists", "get", "getRez"} /\ UNCHANGED server
  <2>1. \A r : ~SureOf(r)' /\ ~Unsettled(r)' /\ ~Unsettled(r)
    BY <1>0, <1>1 DEF SureOf, Unsettled
  <2>2. UNCHANGED <<lock, content>> /\ \A r : There(r)' = There(r)
    BY <1>1 DEF server, There
  <2> QED
    BY <1>0, <1>u, <1>1, <2>1, <2>2 DEF LockInv
<1>2. ASSUME NEW q, \/ pc = "existsLock" /\ ServeExists(q)
                    \/ pc \in {"props", "propsRez"} /\ ServeProps(q)
      PROVE  LockInv'
  <2>1. UNCHANGED <<lock, content>> /\ (pc # "existsLock" => answer' = "ok")
        /\ pc \in {"existsLock", "props", "propsRez"}
    BY <1>2 DEF ServeExists, ServeProps, Respond, server
  <2>2. \A r : (SureOf(r)' = SureOf(r)) /\ (Unsettled(r)' = Unsettled(r)) /\ There(r)' = There(r)
    BY <1>0, <1>2, <1>tops, <2>1 DEF SureOf, Unsettled, There
  <2> QED
    BY <1>0, <1>u, <1>2, <2>1, <2>2 DEF LockInv
<1>3. CASE pc = "lock" /\ ServeLock(todo[1])
  <2>1. /\ lock' = [lock EXCEPT ![todo[1]] = "ours"] /\ There(todo[1]) /\ lock[todo[1]] = "free"
        /\ answer' = "ok" /\ UNCHANGED <<content, trouble>>
    BY <1>3 DEF ServeLock, Respond
  <2>2. todo[1] \in Resources /\ lock'[todo[1]] = "ours"
        /\ \A r \in Resources : r # todo[1] => lock'[r] = lock[r]
    BY <1>3, <1>todo, <2>1 DEF LockCalls, TypeInv, ServerOK
  <2>3. \A r : /\ SureOf(r)' => r = todo[1]
               /\ Unsettled(r)' <=> r = todo[1]
               /\ ~Unsettled(r) /\ There(r)' = There(r)
    BY <1>0, <1>3, <2>1 DEF SureOf, Unsettled, There
  <2> QED
    BY <1>0, <1>u, <1>3, <2>1, <2>2, <2>3 DEF LockInv
<1>4. CASE pc = "lockRez" /\ ServeLock(Rez)
  <2>1. /\ lock' = [lock EXCEPT ![Rez] = "ours"] /\ There(Rez) /\ lock[Rez] = "free"
        /\ answer' = "ok" /\ UNCHANGED <<content, trouble>>
    BY <1>4 DEF ServeLock, Respond
  <2>2. Rez \in Resources /\ lock'[Rez] = "ours" /\ \A r \in Resources : r # Rez => lock'[r] = lock[r]
    BY <1>4, <1>rez, <2>1 DEF TypeInv, ServerOK
  <2>3. \A r : /\ SureOf(r)' => r = Rez \/ SureOf(r)
               /\ Unsettled(r)' <=> r = Rez
               /\ ~Unsettled(r) /\ There(r)' = There(r)
    BY <1>0, <1>tops, <1>4, <2>1 DEF SureOf, Unsettled, There
  <2> QED
    BY <1>0, <1>u, <1>4, <2>1, <2>2, <2>3 DEF LockInv
<1>5. CASE pc = "rollback" /\ ServeUnlock(todo[1])
  <2>1. /\ lock' = [lock EXCEPT ![todo[1]] = "free"]
        /\ answer' = "ok" /\ UNCHANGED <<content, trouble>>
    BY <1>5 DEF ServeUnlock, Respond
  <2>2. todo[1] \in Resources /\ lock'[todo[1]] = "free"
        /\ \A r \in Resources : r # todo[1] => lock'[r] = lock[r]
    BY <1>5, <1>todo, <2>1 DEF LockCalls, TypeInv, ServerOK
  <2>3. \A r : /\ ~SureOf(r)'
               /\ Unsettled(r)' <=> r = todo[1]
               /\ ~Unsettled(r) /\ There(r)' = There(r)
    BY <1>0, <1>5, <2>1 DEF SureOf, Unsettled, There
  <2> QED
    BY <1>0, <1>u, <1>5, <2>1, <2>2, <2>3 DEF LockInv
<1>6. CASE pc = "delete" /\ ServeDelete(rest[1])
  <2>1. UNCHANGED lock /\ \A r \in Resources : lock[r] = "ours" => content'[r] = content[r]
    <3>1. UNCHANGED lock /\ content' = [r \in Resources |-> IF r \in Gone(rest[1]) THEN "none" ELSE content[r]]
      BY <1>6, DeleteIs
    <3>2. \A r \in Gone(rest[1]) : lock[r] = "free"
      BY DEF Gone, HeldBack
    <3> QED
      BY <3>1, <3>2
  <2>2. \A r : ~SureOf(r)' /\ ~Unsettled(r)' /\ ~Unsettled(r)
    BY <1>0, <1>6 DEF SureOf, Unsettled
  <2>3. \A r \in Resources : lock[r] = "ours" => There(r)' = There(r)
    BY <2>1 DEF There
  <2> QED
    BY <1>0, <1>u, <1>6, <2>1, <2>2, <2>3 DEF LockInv
<1>7. (pc = "list" \/ pc = "exists" \/ pc = "get" \/ pc = "getRez") => UNCHANGED server
  BY ServeCases DEF ServeList, ServeExists, ServeGet
<1> QED
  BY ServeCases, <1>1, <1>2, <1>3, <1>4, <1>5, <1>6, <1>7 DEF Rez

\* A call about a lock this client has is not refused.
LEMMA LockFails == ASSUME TypeInv, LockInv, Refuse \/ CallFails PROVE LockInv'
<1>0. UNCHANGED <<server, record, pc, todo, muted>> /\ answer' = "failed"
  BY DEF Refuse, CallFails, Fail, job
<1>1. CASE CallFails
  <2>1. "lost" \in trouble' \/ (muted /\ UNCHANGED trouble)
    BY <1>1 DEF CallFails, Noted
  <2>2. ~Undisturbed'
    BY <2>1, <1>0 DEF LockInv, Undisturbed
  <2> QED
    BY <2>2 DEF LockInv
<1>2. CASE Refuse
  <2>1. answer = "waiting" /\ Refusable /\ trouble' = trouble \cup {"foreign"}
    BY <1>2 DEF Refuse, Noted
  <2>2. SUFFICES ASSUME Undisturbed' PROVE LockInv'
    BY DEF LockInv
  <2>3. Undisturbed
    BY <2>1, <2>2 DEF Undisturbed
  <2>4. pc \in {"props", "rollback"} => todo[1] \in Resources
    <3>1. pc \in {"props", "rollback"} => todo \in Seq(Resources) /\ todo # <<>>
      BY DEF TypeInv, JobOK, Kinds, LockCalls
    <3> QED
      BY <3>1, ElementOfSeq, EmptySeq
  <2>5. pc = "propsRez" => Rez \in Resources
    BY DEF TypeInv, JobOK, Kinds, Rez, Resources
  <2>6. pc \notin {"props", "propsRez", "rollback"}
    <3>1. pc = "props" => lock[todo[1]] = "ours" /\ There(todo[1])
      BY <2>3, <2>4 DEF LockInv, SureOf
    <3>2. pc = "propsRez" => There(Rez)
      BY <2>3, <2>5 DEF LockInv, SureOf
    <3>3. pc = "rollback" => lock[todo[1]] = "ours"
      BY <2>1, <2>3, <2>4 DEF LockInv, SureOf
    <3> QED
      BY <2>1, <3>1, <3>2, <3>3 DEF Refusable, Rez
  <2>7. UNCHANGED <<lock, content, Rez>> /\ \A r : There(r)' = There(r)
    BY <1>0 DEF server, There, Rez
  <2>8. \A r : (SureOf(r)' => SureOf(r)) /\ (Unsettled(r)' = Unsettled(r))
    BY <1>0, <2>1, <2>6, <2>7 DEF SureOf, Unsettled
  <2> QED
    BY <1>0, <2>3, <2>6, <2>7, <2>8 DEF LockInv
<1> QED
  BY <1>1, <1>2

LEMMA LockOthers ==
    ASSUME TypeInv, LockInv, NEW q \in Resources,
           OtherWrites(q) \/ OtherDeletes(q) \/ OtherLocks(q) \/ LockEnds(q)
    PROVE  LockInv'
<1>0. UNCHANGED <<record, pc, answer, todo, muted>> /\ trouble \subseteq trouble'
  BY DEF OtherWrites, OtherDeletes, OtherLocks, LockEnds, job, flags, Noted
<1>1. \A r : SureOf(r)' = SureOf(r) /\ Unsettled(r)' = Unsettled(r)
  BY <1>0 DEF SureOf, Unsettled, Rez
<1>2. CASE LockEnds(q)
  <2>1. ~Undisturbed'
    BY <1>2 DEF LockEnds, Noted, Undisturbed
  <2> QED
    BY <2>1 DEF LockInv
<1>3. CASE OtherWrites(q) \/ OtherDeletes(q) \/ OtherLocks(q)
  <2>1. \A r \in Resources : /\ lock'[r] = "ours" <=> lock[r] = "ours"
                             /\ lock[r] = "ours" => content'[r] = content[r]
    BY <1>3 DEF OtherWrites, OtherDeletes, OtherLocks, TypeInv, ServerOK
  <2>2. Undisturbed' => Undisturbed
    BY <1>0 DEF Undisturbed
  <2>3. pc = "rollback" => todo[1] \in Resources
    <3>1. pc = "rollback" => todo \in Seq(Resources) /\ todo # <<>>
      BY DEF TypeInv, JobOK, Kinds, LockCalls
    <3> QED
      BY <3>1, ElementOfSeq, EmptySeq
  <2> QED
    BY <1>0, <1>1, <2>1, <2>2, <2>3 DEF LockInv, There
<1> QED
  BY <1>2, <1>3

LEMMA LockStep == TypeInv /\ LockInv /\ [Next]_vars => LockInv'
<1> SUFFICES ASSUME TypeInv, LockInv, [Next]_vars PROVE LockInv'
  OBVIOUS
<1>1. CASE Command
  <2>1. /\ pc' = "start" /\ muted' = FALSE /\ pc = "idle" /\ UNCHANGED <<server, record>>
        /\ Quiet
    BY <1>1 DEF Command, Download, MoveItemsToTrash, Start, Call, Idle, Noted, When, Quiet
  <2>2. Undisturbed => \A r \in Resources : lock[r] = "ours" <=> r \in record'
    BY <2>1 DEF LockInv, Unsettled
  <2> QED
    BY <2>1, <2>2, LockSettles DEF Settled, LockCalls
<1>2. CASE CancelOperation
  <2>1. "canceled" \in trouble'
    BY <1>2 DEF CancelOperation, Noted
  <2> QED
    BY <2>1 DEF LockInv, Undisturbed
<1>3. CASE UNCHANGED vars
  BY <1>3 DEF vars, server, job, flags, LockInv, Undisturbed, SureOf, Unsettled, Rez, There
<1> QED
  BY <1>1, <1>2, <1>3, LockThread, LockServe, LockFails, LockOthers DEF Next

LEMMA LockInit == Init => LockInv
  BY DEF Init, LockInv, SureOf, Unsettled

\* What CDownloadAndLockItemsThread locked is on record and what is on record is locked,
\* whichever calls the server refuses and for whatever selection, unless an answer is lost,
\* a lock runs out or the user cancels: the fork that cannot be locked takes the file's
\* lock back.
THEOREM LocksAreNoted == Spec => []LocksAreOnRecord
<1>1. LockInv => LocksAreOnRecord
  <2>1. trouble \subseteq {"raced", "garbled", "replaced", "blocked", "foreign", "partial", "lostTop"} => Undisturbed
    BY DEF Undisturbed
  <2>2. Idle => \A r : ~Unsettled(r)
    BY DEF Idle, Unsettled
  <2> QED
    BY <2>1, <2>2 DEF LockInv, LocksAreOnRecord
<1> QED
  BY TypeInit, TypeStep, LockInit, LockStep, <1>1, PTL DEF Spec
-----------------------------------------------------------------------------
\* Rows.  The thread issues its next call, whatever the last one brought.
Issues == answer' = "waiting" /\ Quiet /\ (UNCHANGED <<mode, canceled, muted>> \/ Finish)

LEMMA GetIssues == \A items, resources, new : Get(items, resources, new) => Issues
  BY DEF Get, Turn, Finish, Call, Noted, When, Issues, Quiet

LEMMA FetchIssues == \A items, resources : Fetch(items, resources) => Issues
<1> SUFFICES ASSUME NEW items, NEW resources, Fetch(items, resources) PROVE Issues
  OBVIOUS
<1>1. CASE \E name : Turn(name, items, resources, FALSE) /\ UNCHANGED trouble
  BY <1>1 DEF Turn, Call, Issues, Quiet
<1> QED
  BY <1>1, GetIssues DEF Fetch

LEMMA BeginIssues == \A items, resources : Begin(items, resources) => Issues
<1> SUFFICES ASSUME NEW items, NEW resources, Begin(items, resources) PROVE Issues
  OBVIOUS
<1>1. CASE Turn("lock", items, resources, FALSE) /\ UNCHANGED trouble
  BY <1>1 DEF Turn, Call, Issues, Quiet
<1> QED
  BY <1>1, FetchIssues DEF Begin

LEMMA FinishIssues == Finish /\ UNCHANGED trouble => Issues
  BY DEF Finish, Call, Issues, Quiet

LEMMA ContinueIssues == \A name : Continue(name) /\ UNCHANGED trouble => Issues
  BY DEF Continue, Call, Issues, Quiet, job, flags

LEMMA NextTopIssues == NextTop => Issues
  BY FinishIssues, BeginIssues DEF NextTop, BeginTop

LEMMA DoneIssues == \A ok : Done(ok) => Issues
<1>1. \A ok : TopDone(ok) => Issues
  BY FinishIssues, ContinueIssues, NextTopIssues DEF TopDone
<1> QED
  BY <1>1, FinishIssues, BeginIssues DEF Done

LEMMA ThreadIssues == Thread => Issues /\ UNCHANGED server
<1> SUFFICES ASSUME Thread PROVE Issues /\ UNCHANGED server
  OBVIOUS
<1>1. CASE Started
  BY <1>1, FinishIssues, BeginIssues DEF Started, BeginTop
<1>2. CASE ListAnswered
  BY <1>2, DoneIssues, BeginIssues DEF ListAnswered
<1>3. CASE ExistsAnswered \/ GetAnswered \/ GetRezAnswered
  BY <1>3, GetIssues, DoneIssues, ContinueIssues DEF ExistsAnswered, GetAnswered, GetRezAnswered
<1>4. CASE DeleteAnswered
  BY <1>4, NextTopIssues DEF DeleteAnswered
<1>5. CASE LockAnswered \/ PropsAnswered \/ ExistsLockAnswered
  BY <1>5, FetchIssues, DoneIssues, ContinueIssues DEF LockAnswered, PropsAnswered, ExistsLockAnswered
<1>6. CASE LockRezAnswered \/ PropsRezAnswered \/ RollbackAnswered
  BY <1>6, FetchIssues, DoneIssues, ContinueIssues DEF LockRezAnswered, PropsRezAnswered, RollbackAnswered
<1> QED
  BY <1>1, <1>2, <1>3, <1>4, <1>5, <1>6 DEF Thread

\* A row that has no item is that of the item under way, which has just been deleted.
Whole == "partial" \notin trouble
Untouched == trouble \cap {"lost", "raced", "partial"} = {}
Deleted == pc = "delete" /\ answer = "ok"

RowInv ==
    /\ Whole => \A i \in Items \ rows : ~There(<<i, "data">>)
    /\ Whole /\ Deleted => \A i \in Items : <<i, rest[1]>> \in Below => ~There(<<i, "data">>)
    /\ Untouched => \A i \in rows : There(<<i, "data">>) \/ (Deleted /\ <<i, rest[1]>> \in Below)

LEMMA RowInit == Init => RowInv
  BY DEF Init, RowInv, There, Deleted

\* Nothing comes back on the server, and what is left of it and of the rows is as before.
LEMMA RowKept ==
    ASSUME RowInv, UNCHANGED rows, trouble \subseteq trouble',
           \A i \in Items : There(<<i, "data">>)' => There(<<i, "data">>),
           Deleted' => Deleted /\ UNCHANGED rest,
           Untouched' => /\ Deleted => Deleted'
                         /\ \A i \in rows : There(<<i, "data">>)' = There(<<i, "data">>)
    PROVE  RowInv'
<1>1. (Whole' => Whole) /\ (Untouched' => Untouched)
  BY DEF Whole, Untouched
<1>2. Below' = Below
  BY DEF Below
<1>3. Whole' => \A i \in Items \ rows' : ~There(<<i, "data">>)'
  BY <1>1 DEF RowInv
<1>4. Whole' /\ Deleted' => \A i \in Items : <<i, rest'[1]>> \in Below => ~There(<<i, "data">>)'
  BY <1>1 DEF RowInv
<1>5. Untouched' => \A i \in rows' : There(<<i, "data">>)' \/ (Deleted' /\ <<i, rest'[1]>> \in Below)
  BY <1>1 DEF RowInv
<1> QED
  BY <1>2, <1>3, <1>4, <1>5 DEF RowInv

LEMMA RowThread == ASSUME TypeInv, RowInv, Thread PROVE RowInv'
<1>0. answer' = "waiting" /\ UNCHANGED content /\ trouble \subseteq trouble'
  BY ThreadIssues DEF Issues, Quiet, server
<1>1. ~Deleted' /\ \A i : There(<<i, "data">>)' = There(<<i, "data">>)
  BY <1>0 DEF Deleted, There
<1>2. CASE DeleteAnswered
  <2>1. /\ pc = "delete" /\ answer # "waiting"
        /\ rows' = IF answer = "ok" THEN {i \in rows : <<i, rest[1]>> \notin Below} ELSE rows
    BY <1>2 DEF DeleteAnswered, Answered
  <2>2. CASE answer = "ok"
    <3>0. rows \subseteq Items
      BY DEF TypeInv, StoreOK
    <3>1. Deleted /\ (Whole' => Whole) /\ (Untouched' => Untouched)
      BY <1>0, <2>1, <2>2 DEF Deleted, Whole, Untouched
    <3>2. Below' = Below
      BY DEF Below
    <3>3. Whole' => \A i \in Items \ rows' : ~There(<<i, "data">>)'
      BY <1>1, <2>1, <2>2, <3>1 DEF RowInv
    <3>4. Untouched' => \A i \in rows' : There(<<i, "data">>)'
      BY <1>1, <2>1, <2>2, <3>0, <3>1 DEF RowInv
    <3> QED
      BY <1>1, <3>2, <3>3, <3>4 DEF RowInv
  <2>3. CASE answer # "ok"
    <3>1. ~Deleted /\ UNCHANGED rows
      BY <2>1, <2>3 DEF Deleted
    <3> QED
      BY <1>0, <1>1, <3>1, RowKept
  <2> QED
    BY <2>2, <2>3
<1>3. CASE Thread /\ ~DeleteAnswered
  <2>1. pc # "delete" /\ UNCHANGED rows
    BY <1>3 DEF Thread, Started, ListAnswered, ExistsAnswered, GetAnswered, GetRezAnswered,
                LockAnswered, PropsAnswered, ExistsLockAnswered, LockRezAnswered,
                PropsRezAnswered, RollbackAnswered, Answered
  <2>2. ~Deleted
    BY <2>1 DEF Deleted
  <2> QED
    BY <1>0, <1>1, <2>1, <2>2, RowKept
<1> QED
  BY <1>2, <1>3

\* A folder goes with all that is in it, unless something there is locked.
LEMMA RowServe == ASSUME TypeInv, RowInv, Serve PROVE RowInv'
<1>0. /\ UNCHANGED <<pc, rest, rows>> /\ answer = "waiting"
      /\ trouble \subseteq trouble'
  <2>1. UNCHANGED <<pc, rest, rows>> /\ answer = "waiting"
    BY DEF Serve, job
  <2>2. trouble \subseteq trouble'
    BY ServeCases, GetIs DEF ServeList, ServeExists, ServeLock, ServeProps, ServeUnlock,
                             ServeDelete, Noted
  <2> QED
    BY <2>1, <2>2
<1>1. CASE pc # "delete"
  <2>1. UNCHANGED content
    BY <1>1, ServeCases DEF ServeList, ServeExists, ServeGet, ServeLock, ServeProps, ServeUnlock, server
  <2>2. ~Deleted /\ ~Deleted' /\ \A i : There(<<i, "data">>)' = There(<<i, "data">>)
    BY <1>0, <1>1, <2>1 DEF Deleted, There
  <2> QED
    BY <1>0, <2>2, RowKept
<1>2. CASE pc = "delete"
  <2> DEFINE gone == Gone(rest[1])
             held == HeldBack(rest[1])
  <2>1. ServeDelete(rest[1])
    BY <1>2, ServeCases
  <2>2. /\ content' = [r \in Resources |-> IF r \in gone THEN "none" ELSE content[r]]
        /\ answer' = "ok"
        /\ held # {} => "partial" \in trouble'
    BY <2>1, DeleteIs DEF Respond, Noted, When
  <2>3. rest[1] \in Items
    <3>1. rest \in Seq(Items) /\ rest # <<>>
      BY <1>2 DEF TypeInv, JobOK
    <3> QED
      BY <3>1, ElementOfSeq, EmptySeq
  <2>4. \A i \in Items : <<i, "data">> \in Resources
    BY ResourceTypes
  <2>5. \A i \in Items : There(<<i, "data">>)' => There(<<i, "data">>)
    BY <2>2, <2>4 DEF There
  <2>6. (Whole' => Whole /\ held = {}) /\ (Untouched' => Untouched /\ Whole') /\ Deleted'
    BY <1>0, <1>2, <2>2 DEF Whole, Untouched, Deleted
  <2>7. ASSUME Whole', NEW i \in Items PROVE There(<<i, "data">>)' <=> There(<<i, "data">>) /\ <<i, rest[1]>> \notin Below
    <3>1. <<i, rest[1]>> \in Below <=> <<i, "data">> = <<rest[1], "data">> \/ Inside(i, rest[1])
      BY <2>3 DEF Below
    <3>2. gone = Under(rest[1])
      BY <2>6, <2>7 DEF Gone
    <3>3. <<i, "data">> \in gone <=> There(<<i, "data">>) /\ <<i, rest[1]>> \in Below
      BY <2>4, <3>1, <3>2 DEF Under
    <3> QED
      BY <2>2, <2>4, <3>3 DEF There
  <2> HIDE DEF gone, held
  <2>8. Below' = Below /\ rest'[1] = rest[1]
    BY <1>0 DEF Below
  <2>9. Whole' => \A i \in Items \ rows' : ~There(<<i, "data">>)'
    BY <1>0, <2>5, <2>6 DEF RowInv
  <2>10. Whole' => \A i \in Items : <<i, rest[1]>> \in Below => ~There(<<i, "data">>)'
    BY <2>7
  <2>11. Untouched' => \A i \in rows : There(<<i, "data">>)' \/ <<i, rest[1]>> \in Below
    BY <1>0, <2>6, <2>7 DEF RowInv, Deleted, TypeInv, StoreOK
  <2> QED
    BY <1>0, <2>6, <2>8, <2>9, <2>10, <2>11 DEF RowInv
<1> QED
  BY <1>1, <1>2

LEMMA RowStep == TypeInv /\ TrashInv /\ RowInv /\ [Next]_vars => RowInv'
<1> SUFFICES ASSUME TypeInv, TrashInv, RowInv, [Next]_vars PROVE RowInv'
  OBVIOUS
<1>0. pc = "delete" => mode = "trash" /\ ~muted
  BY DEF TrashInv, Shape
<1>rows. rows \subseteq Items
  BY DEF TypeInv, StoreOK
<1>1. CASE Command
  <2>1. pc' = "start" /\ pc = "idle" /\ UNCHANGED <<content, rows>> /\ trouble \subseteq trouble'
    BY <1>1 DEF Command, Download, MoveItemsToTrash, Start, Call, Idle, Noted, server
  <2>2. ~Deleted' /\ ~Deleted /\ \A i : There(<<i, "data">>)' = There(<<i, "data">>)
    BY <2>1 DEF Deleted, There
  <2> QED
    BY <2>1, <2>2, RowKept
<1>2. CASE CancelOperation
  <2>1. UNCHANGED <<content, rows, pc, rest>> /\ trouble \subseteq trouble'
    BY <1>2 DEF CancelOperation, Noted, server, job
  <2>2. mode = "trash" => UNCHANGED answer
    BY <1>2 DEF CancelOperation
  <2>3. Deleted' = Deleted /\ \A i : There(<<i, "data">>)' = There(<<i, "data">>)
    BY <1>0, <2>1, <2>2 DEF Deleted, There
  <2> QED
    BY <2>1, <2>3, RowKept
<1>3. CASE Refuse \/ CallFails
  <2>1. UNCHANGED <<content, rows, pc, rest>> /\ trouble \subseteq trouble' /\ answer' = "failed"
    BY <1>3 DEF Refuse, CallFails, Fail, Noted, server, job
  <2>2. Deleted => "lost" \in trouble'
    BY <1>0, <1>3 DEF Refuse, CallFails, Noted, Deleted
  <2>3. ~Deleted' /\ \A i : There(<<i, "data">>)' = There(<<i, "data">>)
    BY <2>1 DEF Deleted, There
  <2> QED
    BY <2>1, <2>2, <2>3, RowKept DEF Untouched
<1>4. ASSUME NEW r \in Resources, OtherWrites(r) \/ OtherDeletes(r) \/ OtherLocks(r) \/ LockEnds(r)
      PROVE  RowInv'
  <2>1. UNCHANGED <<rows, pc, answer, rest>> /\ trouble \subseteq trouble'
    BY <1>4 DEF OtherWrites, OtherDeletes, OtherLocks, LockEnds, Noted, job
  <2>2. Deleted' = Deleted
    BY <2>1 DEF Deleted
  <2>3. \A i \in Items : There(<<i, "data">>)' => There(<<i, "data">>)
    BY <1>4, ResourceTypes DEF OtherWrites, OtherDeletes, OtherLocks, LockEnds, There, TypeInv, ServerOK
  <2>4. "raced" \in trouble' \/ \A i \in Items : There(<<i, "data">>)' = There(<<i, "data">>)
    BY <1>4, ResourceTypes DEF OtherWrites, OtherDeletes, OtherLocks, LockEnds, There, TypeInv, ServerOK, Noted
  <2> QED
    BY <1>rows, <2>1, <2>2, <2>3, <2>4, RowKept DEF Untouched
<1>5. CASE UNCHANGED vars
  <2>1. UNCHANGED <<content, rows, pc, answer, rest, trouble>>
    BY <1>5 DEF vars, server, job
  <2>2. Deleted' = Deleted /\ \A i : There(<<i, "data">>)' = There(<<i, "data">>)
    BY <2>1 DEF Deleted, There
  <2> QED
    BY <2>1, <2>2, RowKept
<1> QED
  BY <1>1, <1>2, <1>3, <1>4, <1>5, RowThread, RowServe DEF Next

\* The rows of the window follow the server whatever is moved to the trash and in whatever
\* order (CMoveItemsToTrashThread and CDAVTableWindow): a row goes with its item only, with
\* the rows below it, unless the server kept a part of a folder, and stays with it, unless
\* an answer was lost or another client deleted the item.
THEOREM RowsFollow == Spec => []RowsAgree
<1>1. TypeInv /\ RowInv => RowsAgree
  <2>1. trouble \cap {"lost", "raced", "partial"} = {} <=> Untouched
    BY DEF Untouched
  <2>2. Idle => ~Deleted
    BY DEF Idle, Deleted
  <2> QED
    BY <2>1, <2>2 DEF RowInv, RowsAgree, Whole
<1> QED
  BY TypeInit, TypeStep, TreeInit, TreeStep, TrashInit, TrashStep, RowInit, RowStep, <1>1,
     PTL DEF Spec
-----------------------------------------------------------------------------
\* Downloads.  Nothing went wrong so far.
Smooth == trouble \subseteq {"replaced"}

\* A file was brought, if it is there, with its resource fork.
Got(f) ==
    There(<<f, "data">>) =>
       /\ local[<<f, "data">>] = content[<<f, "data">>]
       /\ Encoding => merged[f] = content[<<f, "rez">>]

\* With these items ahead, a selected item is under way or behind.  What is wanted of it is
\* the item or what is in it, and is due while it is to come.
Begun(i, items) == i = items[1] \/ \A n \in DOMAIN items : items[n] # i
Wants(i, f) == f = i \/ Inside(f, i)
Due(f, resources) == Coming(<<f, "data">>, resources)

\* What was begun was brought, or is ahead.
Left(items, resources) ==
    \A i \in Tops, f \in Files : Begun(i, items) /\ Wants(i, f) => Got(f) \/ Due(f, resources)

\* A file is all that is fetched for it.
Formed(items, resources) == items[1] \in Files => resources = << <<items[1], "data">> >>

\* What the call under way is known to have brought.
Brought ==
    /\ pc = "list" /\ answer # "waiting" => listed = Listing(todo[1][1])
    /\ pc = "exists" /\ answer # "waiting" /\ todo[1] \in Files \X {"data"} =>
          (answer = "ok" <=> There(Rez))
    /\ pc \in {"get", "getRez"} /\ (pc = "getRez" \/ answer # "waiting") => Fetched(todo[1])
    /\ pc = "get" /\ Encoding /\ todo[1] \in Files \X {"data"} =>
          (fork <=> There(Rez)) /\ merged[todo[1][1]] = "none"
    /\ pc = "getRez" /\ answer # "waiting" => merged[todo[1][1]] = content[Rez]

CopyInv ==
    Smooth =>
       /\ ~canceled /\ ~muted
       /\ mode # "trash" =>
             /\ answer # "failed" /\ pc # "rollback"
             /\ answer = "absent" => pc \in {"exists", "existsLock"}
             /\ pc = "start" => rest = pick
             /\ pc \in LockCalls \cup FetchCalls =>
                   Formed(rest, todo) /\ Left(rest, todo) /\ Brought

LEMMA CopyInit == Init => CopyInv
  BY DEF Init, CopyInv, LockCalls, FetchCalls

LEMMA SameWork ==
    UNCHANGED <<rest, todo>> =>
       \A i, f : /\ Begun(i, rest)' <=> Begun(i, rest)
                 /\ Wants(i, f)' <=> Wants(i, f)
                 /\ Due(f, todo)' <=> Due(f, todo)
  BY DEF Begun, Wants, Due, Coming, Meant, Inside

LEMMA SmoothBefore == Quiet /\ Smooth' => Smooth
  BY DEF Quiet, Smooth

\* The thread ends.
LEMMA CopyFinish == ASSUME CopyInv, Finish, Quiet PROVE CopyInv'
<1>1. pc' = "idle" /\ answer' = "waiting" /\ canceled' = FALSE /\ muted' = FALSE
  BY DEF Finish, Call
<1> QED
  BY <1>1 DEF CopyInv, LockCalls, FetchCalls

\* The thread turns to a resource, and destroys no other file it brought.
LEMMA CopyTurn ==
    ASSUME CopyInv, Quiet, mode # "trash", UNCHANGED server, NEW items, NEW resources, NEW new,
           NEW name \in {"lock", "list", "exists", "get"}, Turn(name, items, resources, new),
           Smooth => Formed(items, resources) /\ Left(items, resources),
           \A f \in Files : Got(f) => Got(f)' \/ Due(f, resources),
           name = "get" /\ Encoding /\ resources[1] \in Files \X {"data"} /\ Smooth =>
              /\ new <=> There(<<resources[1][1], "rez">>)
              /\ merged'[resources[1][1]] = "none"
    PROVE  CopyInv'
<1>0. /\ pc' = name /\ answer' = "waiting" /\ rest' = items /\ todo' = resources /\ fork' = new
      /\ UNCHANGED <<mode, pick, canceled, muted, content>>
  BY DEF Turn, Call, server
<1>1. SUFFICES ASSUME Smooth' PROVE CopyInv'
  BY DEF CopyInv
<1>2. Smooth
  BY <1>1, SmoothBefore
<1>3. Tops' = Tops /\ \A r : There(r)' = There(r)
  BY <1>0 DEF Tops, There
<1>4. Formed(rest, todo)'
  BY <1>0, <1>2 DEF Formed
<1>5. Left(rest, todo)'
  <2>1. ASSUME NEW i \in Tops, NEW f \in Files, Begun(i, items), Wants(i, f)
        PROVE  Got(f)' \/ Due(f, resources)
    BY <1>2, <2>1 DEF Left
  <2>2. \A i, f : /\ Begun(i, rest)' <=> Begun(i, items)
                  /\ Wants(i, f)' <=> Wants(i, f)
                  /\ Due(f, todo)' <=> Due(f, resources)
    BY <1>0 DEF Begun, Wants, Due, Coming, Meant, Inside
  <2> QED
    BY <1>3, <2>1, <2>2 DEF Left
<1>6. Brought'
  BY <1>0, <1>2, <1>3 DEF Brought, Rez
<1> QED
  BY <1>0, <1>2, <1>4, <1>5, <1>6 DEF CopyInv

LEMMA CopyGet ==
    ASSUME TypeInv, CopyInv, mode # "trash", UNCHANGED server, NEW items, NEW new \in BOOLEAN,
           NEW resources \in Seq(Resources), resources # <<>>, resources[1][1] \in Files,
           Get(items, resources, new),
           Smooth => Formed(items, resources) /\ Left(items, resources),
           Encoding /\ resources[1] \in Files \X {"data"} /\ Smooth =>
              (new <=> There(<<resources[1][1], "rez">>))
    PROVE  CopyInv'
<1>1. Quiet
  BY DEF Get, Noted, When, Quiet
<1>2. resources[1] \in Resources /\ 1 \in DOMAIN resources
  <2>1. Len(resources) \in Nat /\ Len(resources) # 0 /\ DOMAIN resources = 1..Len(resources)
    BY EmptySeq, LenProperties
  <2> QED
    BY <2>1, ElementOfSeq
<1>3. CASE Finish
  BY <1>1, <1>3, CopyFinish
<1>4. CASE ~Finish
  <2> DEFINE r == resources[1]
  <2>1. /\ Turn("get", items, resources, new)
        /\ local' = [local EXCEPT ![r] = "part"]
        /\ merged' = IF r[2] = "data" THEN [merged EXCEPT ![r[1]] = "none"] ELSE merged
    BY <1>4 DEF Get
  <2>2. r \in Files \X {"data"} => merged'[r[1]] = "none"
    BY <2>1 DEF TypeInv, DiskOK
  <2>3. ASSUME NEW f \in Files, Got(f), ~Due(f, resources) PROVE Got(f)'
    <3>1. <<f, "data">> # r
      BY <1>2, <2>3 DEF Due, Coming, Meant
    <3>2. <<f, "data">> \in Resources /\ (r[2] = "data" => r[1] # f)
      BY <1>2, <3>1 DEF Resources, Items
    <3>3. local'[<<f, "data">>] = local[<<f, "data">>] /\ merged'[f] = merged[f]
      BY <2>1, <3>1, <3>2 DEF TypeInv, DiskOK
    <3>4. UNCHANGED content
      BY DEF server
    <3> QED
      BY <2>3, <3>3, <3>4 DEF Got, There
  <2> QED
    BY <1>1, <2>1, <2>2, <2>3, CopyTurn
<1> QED
  BY <1>3, <1>4

LEMMA CopyFetch ==
    ASSUME TypeInv, CopyInv, mode # "trash", UNCHANGED server, NEW items,
           NEW resources \in Seq(Resources), resources # <<>>, Fetch(items, resources),
           Smooth => Formed(items, resources) /\ Left(items, resources)
    PROVE  CopyInv'
<1>0. resources[1] \in Resources
  BY ElementOfSeq, EmptySeq
<1>1. CASE resources[1][1] \in Folders
  <2>1. /\ Turn("list", items, resources, FALSE) /\ UNCHANGED <<merged, trouble>>
        /\ local' = [local EXCEPT ![resources[1]] = "old"]
    BY <1>1 DEF Fetch
  <2>2. ASSUME NEW f \in Files, Got(f) PROVE Got(f)'
    <3>1. <<f, "data">> # resources[1] /\ <<f, "data">> \in Resources
      BY <1>1, ConstantsAssumption, ResourceTypes DEF Items
    <3>2. local'[<<f, "data">>] = local[<<f, "data">>]
      BY <2>1, <3>1 DEF TypeInv, DiskOK
    <3> QED
      BY <2>1, <2>2, <3>2 DEF Got, There, server
  <2>3. Quiet
    BY <2>1 DEF Quiet
  <2> QED
    BY <2>1, <2>2, <2>3, CopyTurn
<1>2. CASE resources[1][1] \notin Folders /\ Encoding
  <2>1. Turn("exists", items, resources, FALSE) /\ UNCHANGED <<disk, trouble>>
    BY <1>2 DEF Fetch
  <2>2. \A f \in Files : Got(f) => Got(f)'
    BY <2>1 DEF disk, server, Got, There
  <2>3. Quiet
    BY <2>1 DEF Quiet
  <2> QED
    BY <2>1, <2>2, <2>3, CopyTurn
<1>3. CASE resources[1][1] \notin Folders /\ ~Encoding
  <2>1. resources[1][1] \in Files
    BY <1>0, <1>3, ResourceTypes
  <2> QED
    BY <1>3, <2>1, CopyGet DEF Fetch
<1> QED
  BY <1>1, <1>2, <1>3

LEMMA CopyBegin ==
    ASSUME TypeInv, CopyInv, mode # "trash", UNCHANGED server, NEW items,
           NEW resources \in Seq(Resources), resources # <<>>, Begin(items, resources),
           Smooth => Formed(items, resources) /\ Left(items, resources)
    PROVE  CopyInv'
<1>1. CASE mode = "lock"
  <2>1. Turn("lock", items, resources, FALSE) /\ UNCHANGED <<disk, trouble>>
    BY <1>1 DEF Begin
  <2>2. \A f \in Files : Got(f) => Got(f)'
    BY <2>1 DEF disk, server, Got, There
  <2>3. Quiet
    BY <2>1 DEF Quiet
  <2> QED
    BY <2>1, <2>2, <2>3, CopyTurn
<1> QED
  BY <1>1, CopyFetch DEF Begin

\* The thread ends before its time if a file is in use.
LEMMA BeginEnds ==
    \A items, resources, new :
       Begin(items, resources) \/ Fetch(items, resources) \/ Get(items, resources, new) =>
          (Idle' => ~Smooth')
<1> SUFFICES ASSUME NEW items, NEW resources, NEW any, pc' = "idle",
                    Begin(items, resources) \/ Fetch(items, resources) \/ Get(items, resources, any)
             PROVE  "blocked" \in trouble'
  BY DEF Idle, Smooth
<1>1. ASSUME NEW name \in {"lock", "list", "exists"}, Turn(name, items, resources, FALSE) PROVE FALSE
  BY <1>1 DEF Turn, Call
<1>2. \E new : Get(items, resources, new)
  BY <1>1 DEF Begin, Fetch
<1> QED
  BY <1>2 DEF Get, Turn, Call, Noted

\* All files that a finished job was to bring.
Copied == \A i \in Tops, f \in Files : Wants(i, f) => Got(f)

\* When it begins with an item, all that is wanted of it is due.
LEMMA TopIsDue == ASSUME NEW i, NEW f, Wants(i, f) PROVE Due(f, << <<i, "data">> >>)
<1> DEFINE resources == << <<i, "data">> >>
<1>1. 1 \in DOMAIN resources /\ resources[1] = <<i, "data">> /\ resources[1][1] = i
  OBVIOUS
<1> HIDE DEF resources
<1>2. Due(f, resources)
  BY <1>1 DEF Wants, Due, Coming, Meant
<1> QED
  BY <1>2 DEF resources

\* The thread goes on with the next item, or ends with all of them behind.
LEMMA CopyNextTop ==
    ASSUME TypeInv, CopyInv, mode # "trash", pc # "idle", UNCHANGED server, NextTop,
           Smooth => \A i \in Tops, f \in Files : Wants(i, f) /\ Begun(i, rest) => Got(f)
    PROVE  CopyInv' /\ (Idle' /\ Smooth' => Copied)
<1>0. rest \in Seq(Items) /\ rest # <<>> /\ Quiet
  BY NextTopGoes DEF TypeInv, JobOK
<1>1. CASE canceled \/ Len(rest) = 1
  <2>1. Finish /\ CopyInv'
    BY <1>0, <1>1, CopyFinish DEF NextTop
  <2>2. ASSUME Smooth' PROVE Copied
    <3>1. Smooth /\ Len(rest) = 1
      BY <1>0, <1>1, <2>2, SmoothBefore DEF CopyInv
    <3>2. DOMAIN rest = 1..1
      BY <1>0, <3>1, LenProperties
    <3>3. \A i : Begun(i, rest)
      BY <3>2 DEF Begun
    <3> QED
      BY <3>1, <3>3 DEF Copied
  <2> QED
    BY <2>1, <2>2
<1>2. CASE ~(canceled \/ Len(rest) = 1)
  <2>1. BeginTop(Tail(rest)) /\ Len(rest) # 1
    BY <1>2 DEF NextTop
  <2>2. /\ Tail(rest) \in Seq(Items) /\ Tail(rest) # <<>>
        /\ \A n \in DOMAIN Tail(rest) : Tail(rest)[n] = rest[n + 1]
    BY <1>0, <2>1, Tails
  <2>3. <<Tail(rest)[1], "data">> \in Resources
    BY <2>2, ResourceTypes, ElementOfSeq, EmptySeq
  <2>4. /\ << <<Tail(rest)[1], "data">> >> \in Seq(Resources)
        /\ << <<Tail(rest)[1], "data">> >> # << >>
    BY <2>3, Single
  <2>5. ASSUME NEW i, \A n \in DOMAIN Tail(rest) : Tail(rest)[n] # i PROVE Begun(i, rest)
    <3>1. \A n \in DOMAIN rest : n # 1 => \E k \in DOMAIN Tail(rest) : Tail(rest)[k] = rest[n]
      BY <1>0, StillThere
    <3> QED
      BY <2>5, <3>1 DEF Begun
  <2>6. Smooth => Left(Tail(rest), << <<Tail(rest)[1], "data">> >>)
    <3>1. SUFFICES ASSUME Smooth, NEW i \in Tops, NEW f \in Files, Begun(i, Tail(rest)), Wants(i, f)
                   PROVE  Got(f) \/ Due(f, << <<Tail(rest)[1], "data">> >>)
      BY DEF Left
    <3>2. CASE i = Tail(rest)[1]
      BY <3>1, <3>2, TopIsDue
    <3> QED
      BY <2>5, <3>1, <3>2 DEF Begun
  <2>7. CopyInv'
    BY <2>1, <2>4, <2>6, CopyBegin DEF BeginTop, Formed
  <2>8. Idle' => ~Smooth'
    BY <2>1, BeginEnds DEF BeginTop
  <2> QED
    BY <2>7, <2>8
<1> QED
  BY <1>1, <1>2

\* Where the download goes once a resource is done that was brought.
LEMMA CopyDone ==
    ASSUME TypeInv, CopyInv, mode # "trash", pc \in LockCalls \cup FetchCalls, UNCHANGED server,
           NEW ok \in BOOLEAN, Done(ok), Smooth => ok,
           Smooth => Left(rest, Tail(todo))
    PROVE  CopyInv' /\ (Idle' /\ Smooth' => Copied)
<1>0. /\ todo \in Seq(Resources) /\ todo # <<>> /\ rest \in Seq(Items) /\ rest # <<>>
      /\ pc # "idle" /\ rest[1] \in Items
  <2>1. /\ todo \in Seq(Resources) /\ todo # <<>> /\ rest \in Seq(Items) /\ rest # <<>>
        /\ pc # "idle"
    BY DEF TypeInv, JobOK, Kinds, LockCalls, FetchCalls
  <2> QED
    BY <2>1, ElementOfSeq, EmptySeq
<1>1. Quiet
  BY DoneGoes
<1>2. CASE ~Smooth
  BY <1>1, <1>2, SmoothBefore DEF CopyInv
<1>3. CASE Smooth
  <2>1. ok /\ ~canceled /\ Formed(rest, todo)
    BY <1>3 DEF CopyInv
  <2>2. rest[1] \in Files => Len(todo) = 1
    <3>1. rest[1] \in Files => todo = << <<rest[1], "data">> >>
      BY <2>1, ConstantsAssumption DEF Formed
    <3>2. Len(<< <<rest[1], "data">> >>) = 1
      OBVIOUS
    <3> QED
      BY <3>1, <3>2, Zenon
  <2>3. CASE Len(todo) = 1
    <3>1. NextTop
      BY <2>1, <2>3 DEF Done, TopDone
    <3>2. \A f : ~Due(f, Tail(todo))
      <4>1. Tail(todo) \in Seq(Resources) /\ Len(Tail(todo)) = 0
        BY <1>0, <2>3, HeadTailProperties
      <4>2. DOMAIN Tail(todo) = 1..0
        BY <4>1, LenProperties, Zenon
      <4>3. \A n : n \notin 1..0
        OBVIOUS
      <4> QED
        BY <4>2, <4>3, Zenon DEF Due, Coming
    <3> QED
      BY <1>0, <1>3, <3>1, <3>2, CopyNextTop DEF Left
  <2>4. CASE Len(todo) # 1
    <3>1. Begin(rest, Tail(todo)) /\ rest[1] \notin Files
      BY <2>1, <2>2, <2>4 DEF Done
    <3>2. /\ Tail(todo) \in Seq(Resources) /\ Tail(todo) # <<>>
          /\ \A n \in DOMAIN Tail(todo) : Tail(todo)[n] = todo[n + 1]
      BY <1>0, <2>4, Tails
    <3>3. Formed(rest, Tail(todo))
      BY <3>1 DEF Formed
    <3> QED
      BY <1>3, <3>1, <3>2, <3>3, CopyBegin, BeginEnds
  <2> QED
    BY <2>3, <2>4
<1> QED
  BY <1>2, <1>3

\* What a listing brought is all that is there.
LEMMA CopyListed ==
    ASSUME TypeInv, TreeThere, CopyInv, mode # "trash", ListAnswered
    PROVE  CopyInv' /\ (Idle' /\ Smooth' => Copied)
<1>1. /\ pc = "list" /\ pc \in LockCalls \cup FetchCalls /\ answer # "waiting"
      /\ UNCHANGED <<server, record, rows>>
  BY DEF ListAnswered, Answered, FetchCalls
<1>2. /\ todo \in Seq(Resources) /\ todo # <<>> /\ rest \in Seq(Items) /\ rest # <<>>
      /\ listed \subseteq Resources /\ todo[1][1] \in Folders
  BY <1>1 DEF TypeInv, JobOK, Kinds, FlagsOK
<1>3. PICK found \in SUBSET listed :
         /\ \A r \in listed : r[2] = "data" => r \in found
         /\ IF found = {} THEN Done(TRUE)
            ELSE \E order \in SetToSeqs(found) : Begin(rest, order \o Tail(todo))
  BY DEF ListAnswered
<1>4. ASSUME Smooth
      PROVE  listed = Listing(todo[1][1]) /\ rest[1] \notin Files /\ Left(rest, todo)
  <2>1. Formed(rest, todo) /\ Left(rest, todo) /\ listed = Listing(todo[1][1])
    BY <1>1, <1>4 DEF CopyInv, Brought
  <2>2. << <<rest[1], "data">> >>[1][1] = rest[1]
    OBVIOUS
  <2> QED
    BY <1>2, <2>1, <2>2, ConstantsAssumption DEF Formed
<1>5. ASSUME Smooth, NEW f \in Files, Due(f, todo)
      PROVE  \/ Got(f)
             \/ \E q \in found : Meant(<<f, "data">>, q)
             \/ \E n \in DOMAIN todo : n # 1 /\ Meant(<<f, "data">>, todo[n])
  <2>1. CASE Meant(<<f, "data">>, todo[1]) /\ There(<<f, "data">>)
    <3>1. <<f, "data">> \in Resources /\ <<f, "data">>[1] = f /\ f \notin Folders
      BY ResourceTypes, ConstantsAssumption DEF Items
    <3>2. f \in Within[todo[1][1]]
      BY <1>2, <2>1, <3>1 DEF Meant, Inside
    <3>3. PICK q \in Listing(todo[1][1]) : Meant(<<f, "data">>, q)
      BY <1>2, <2>1, <3>1, <3>2, AllIsListed
    <3>4. q[2] = "data"
      BY <3>3, ResourceTypes DEF Meant, Inside, Listing
    <3> QED
      BY <1>3, <1>4, <1>5, <3>3, <3>4
  <2>2. CASE ~There(<<f, "data">>)
    BY <2>2 DEF Got
  <2> QED
    BY <1>5, <2>1, <2>2 DEF Due, Coming
<1>6. CASE found = {}
  <2>1. Done(TRUE)
    BY <1>3, <1>6
  <2>2. ASSUME Smooth, NEW f \in Files, Due(f, todo) PROVE Got(f) \/ Due(f, Tail(todo))
    BY <1>2, <1>5, <1>6, <2>2, StillThere DEF Due, Coming
  <2>3. Smooth => Left(rest, Tail(todo))
    BY <1>4, <2>2 DEF Left
  <2> QED
    BY <1>1, <2>1, <2>3, CopyDone
<1>7. CASE found # {}
  <2>1. PICK order \in SetToSeqs(found) : Begin(rest, order \o Tail(todo))
    BY <1>3, <1>7
  <2>2. found \subseteq Resources
    BY <1>2
  <2>3. /\ order \in Seq(found) /\ order # <<>> /\ order \in Seq(Resources)
        /\ \A r \in found : \E n \in DOMAIN order : order[n] = r
    BY <1>7, <2>1, <2>2, FiniteResources, Orders, SeqMonotonic
  <2> DEFINE resources == Joined(order, todo)
  <2>4. Begin(rest, resources)
    BY <2>1 DEF Joined
  <2>5. resources \in Seq(Resources) /\ resources # <<>>
    BY <1>2, <2>3, Joins
  <2>6. /\ \A n \in DOMAIN order : n \in DOMAIN resources /\ resources[n] = order[n]
        /\ \A n \in DOMAIN todo : n # 1 => \E k \in DOMAIN resources : resources[k] = todo[n]
    BY <1>2, <2>3, Joins
  <2> HIDE DEF resources
  <2>7. ASSUME Smooth, NEW f \in Files, Due(f, todo) PROVE Got(f) \/ Due(f, resources)
    <3>1. \A q \in found : \E k \in DOMAIN resources : resources[k] = q
      BY <2>3, <2>6
    <3> QED
      BY <1>5, <2>6, <2>7, <3>1 DEF Due, Coming
  <2>8. Smooth => Formed(rest, resources) /\ Left(rest, resources)
    BY <1>4, <2>7 DEF Formed, Left
  <2> QED
    BY <1>1, <2>4, <2>5, <2>8, CopyBegin, BeginEnds
<1> QED
  BY <1>6, <1>7

\* A file is done that was fetched.
LEMMA CopyResource ==
    ASSUME TypeInv, CopyInv, mode # "trash", pc \in {"get", "getRez"}, UNCHANGED server,
           NEW ok \in BOOLEAN, Done(ok), Smooth => ok,
           Smooth /\ todo[1] \in Files \X {"data"} => Got(todo[1][1])
    PROVE  CopyInv' /\ (Idle' /\ Smooth' => Copied)
<1>0. pc \in FetchCalls /\ pc \in LockCalls \cup FetchCalls
  BY DEF FetchCalls
<1>1. todo \in Seq(Resources) /\ todo # <<>> /\ todo[1][1] \in Files /\ rest \in Seq(Items) /\ rest # <<>>
  BY <1>0 DEF TypeInv, JobOK, Kinds
<1>2. Len(todo) \in Nat \ {0} /\ DOMAIN todo = 1..Len(todo) /\ 1 \in DOMAIN todo
  BY <1>1, LenProperties, EmptySeq
<1>3. ASSUME Smooth, NEW f \in Files, Due(f, todo) PROVE Got(f) \/ Due(f, Tail(todo))
  <2>1. PICK n \in DOMAIN todo : Meant(<<f, "data">>, todo[n])
    BY <1>3 DEF Due, Coming
  <2>2. CASE n = 1
    <3>1. <<f, "data">>[1] = f /\ <<f, "data">> \in Files \X {"data"}
      OBVIOUS
    <3>2. todo[1] = <<f, "data">>
      BY <1>1, <2>1, <2>2, ConstantsAssumption DEF Meant, Inside
    <3> QED
      BY <1>3, <3>1, <3>2
  <2>3. CASE n # 1
    BY <1>1, <2>1, <2>3, StillThere DEF Due, Coming
  <2> QED
    BY <2>2, <2>3
<1>4. Smooth => Left(rest, Tail(todo))
  <2>1. Smooth => Left(rest, todo)
    BY <1>0 DEF CopyInv
  <2> QED
    BY <1>3, <2>1 DEF Left
<1> QED
  BY <1>0, <1>4, CopyDone

LEMMA CopyFetched ==
    ASSUME TypeInv, CopyInv, mode # "trash", ExistsAnswered \/ GetAnswered \/ GetRezAnswered
    PROVE  CopyInv' /\ (Idle' /\ Smooth' => Copied)
<1>0. /\ pc \in {"exists", "get", "getRez"} /\ pc \in LockCalls \cup FetchCalls
      /\ answer # "waiting" /\ UNCHANGED <<server, record, rows>>
  BY DEF ExistsAnswered, GetAnswered, GetRezAnswered, Answered, FetchCalls
<1>1. todo \in Seq(Resources) /\ todo # <<>> /\ todo[1][1] \in Files /\ todo[1] \in Resources
  <2>1. todo \in Seq(Resources) /\ todo # <<>> /\ todo[1][1] \in Files
    BY <1>0 DEF TypeInv, JobOK, Kinds, FetchCalls
  <2> QED
    BY <2>1, ElementOfSeq, EmptySeq
<1>2. Smooth => Formed(rest, todo) /\ Left(rest, todo) /\ Brought /\ answer # "failed"
  BY <1>0 DEF CopyInv
<1>3. todo[1] \in Files \X {"data"} => todo[1] = <<todo[1][1], "data">>
  OBVIOUS
<1>4. CASE ExistsAnswered
  <2>1. pc = "exists" /\ Get(rest, todo, answer = "ok") /\ (answer = "ok") \in BOOLEAN
    BY <1>4 DEF ExistsAnswered, Answered
  <2>2. todo[1] \in Files \X {"data"} /\ Smooth => ((answer = "ok") <=> There(<<todo[1][1], "rez">>))
    BY <1>0, <1>2, <2>1 DEF Brought, Rez
  <2> QED
    BY <1>0, <1>1, <1>2, <2>1, <2>2, CopyGet, BeginEnds
<1>5. CASE GetAnswered /\ Continue("getRez") /\ UNCHANGED trouble
  <2>1. /\ pc' = "getRez" /\ answer' = "waiting" /\ pc = "get"
        /\ UNCHANGED <<mode, pick, rest, todo, canceled, muted, local, merged, content, trouble>>
    BY <1>5 DEF GetAnswered, Answered, Continue, Call, job, flags, disk, server
  <2>2. Smooth' = Smooth /\ (Left(rest, todo) => Left(rest, todo)') /\ (Formed(rest, todo) => Formed(rest, todo)')
    <3>1. Tops' = Tops /\ \A f : Got(f)' = Got(f)
      BY <2>1 DEF Tops, Got, There
    <3> QED
      BY <2>1, <3>1, SameWork DEF Smooth, Left, Formed
  <2>3. Smooth => Brought'
    BY <1>0, <1>2, <2>1 DEF Brought, Fetched
  <2>4. CopyInv'
    BY <1>2, <2>1, <2>2, <2>3 DEF CopyInv
  <2> QED
    BY <2>1, <2>4 DEF Idle
<1>6. CASE GetAnswered /\ ~fork /\ answer # "failed"
  <2>1. pc = "get" /\ Done(TRUE)
    BY <1>6 DEF GetAnswered, Answered
  <2>2. Smooth /\ todo[1] \in Files \X {"data"} => Got(todo[1][1])
    BY <1>0, <1>2, <1>3, <1>6, <2>1 DEF Brought, Fetched, Got, There, Rez
  <2> QED
    BY <1>0, <2>1, <2>2, CopyResource
<1>7. CASE GetAnswered /\ answer = "failed"
  <2>1. pc = "get" /\ Done(FALSE) /\ ~Smooth
    BY <1>2, <1>7 DEF GetAnswered, Answered
  <2> QED
    BY <1>0, <2>1, CopyResource
<1>8. CASE GetRezAnswered
  <2>1. pc = "getRez" /\ Done(answer # "failed") /\ (answer # "failed") \in BOOLEAN
    BY <1>8 DEF GetRezAnswered, Answered
  <2>2. Smooth /\ todo[1] \in Files \X {"data"} => Got(todo[1][1])
    BY <1>0, <1>2, <1>3, <2>1 DEF Brought, Fetched, Got, Rez
  <2>3. Smooth => (answer # "failed")
    BY <1>2
  <2> QED
    BY <1>0, <2>1, <2>2, <2>3, CopyResource
<1> QED
  BY <1>4, <1>5, <1>6, <1>7, <1>8 DEF GetAnswered

\* Locking brings nothing, and what could not be locked was noted.
LEMMA CopyLocked ==
    ASSUME TypeInv, CopyInv, mode # "trash",
           \/ LockAnswered \/ PropsAnswered \/ ExistsLockAnswered
           \/ LockRezAnswered \/ PropsRezAnswered \/ RollbackAnswered
    PROVE  CopyInv' /\ (Idle' /\ Smooth' => Copied)
<1>0. /\ pc \in LockCalls /\ answer # "waiting" /\ UNCHANGED server
  BY DEF LockAnswered, PropsAnswered, ExistsLockAnswered, LockRezAnswered, PropsRezAnswered,
         RollbackAnswered, Answered, LockCalls
<1>1. todo \in Seq(Resources) /\ todo # <<>>
  BY <1>0 DEF TypeInv, JobOK, Kinds
<1>2. Smooth => Formed(rest, todo) /\ Left(rest, todo)
  BY <1>0 DEF CopyInv
<1>3. Quiet
  BY ThreadIssues DEF Issues, Thread
<1>4. CASE ~Smooth
  BY <1>3, <1>4, SmoothBefore DEF CopyInv
<1>5. CASE Fetch(rest, todo)
  BY <1>0, <1>1, <1>2, <1>5, CopyFetch, BeginEnds
<1>6. ASSUME Smooth, NEW name \in {"props", "existsLock", "lockRez", "propsRez"},
             Continue(name), UNCHANGED trouble
      PROVE  CopyInv' /\ (Idle' /\ Smooth' => Copied)
  <2>1. /\ pc' = name /\ answer' = "waiting"
        /\ UNCHANGED <<mode, pick, rest, todo, canceled, muted, local, merged, content, trouble>>
    BY <1>0, <1>6 DEF Continue, Call, job, flags, disk, server
  <2>2. Smooth' = Smooth /\ (Left(rest, todo) => Left(rest, todo)') /\ (Formed(rest, todo) => Formed(rest, todo)')
    <3>1. Tops' = Tops /\ \A f : Got(f)' = Got(f)
      BY <2>1 DEF Tops, Got, There
    <3> QED
      BY <2>1, <3>1, SameWork DEF Smooth, Left, Formed
  <2>3. Brought'
    BY <2>1 DEF Brought
  <2>4. CopyInv'
    BY <1>2, <1>6, <2>1, <2>2, <2>3 DEF CopyInv
  <2> QED
    BY <2>1, <2>4 DEF Idle
<1>7. CASE Smooth /\ ~Fetch(rest, todo)
  <2>1. /\ answer # "failed" /\ pc # "rollback"
        /\ answer = "absent" => pc = "existsLock"
    BY <1>0, <1>7 DEF CopyInv, LockCalls
  <2>2. answer \in {"ok", "absent"}
    BY <1>0, <2>1 DEF TypeInv, FlagsOK, Answers
  <2>3. \E name \in {"props", "existsLock", "lockRez", "propsRez"} : Continue(name) /\ UNCHANGED trouble
    BY <1>7, <2>1, <2>2 DEF LockAnswered, PropsAnswered, ExistsLockAnswered, LockRezAnswered,
                            PropsRezAnswered, RollbackAnswered, Answered
  <2> QED
    BY <1>6, <1>7, <2>3
<1> QED
  BY <1>4, <1>5, <1>7

LEMMA CopyThread ==
    ASSUME TypeInv, TreeThere, TrashInv, CopyInv, Thread
    PROVE  CopyInv' /\ (Idle' /\ Smooth' /\ pc # "start" /\ mode # "trash" => Copied)
<1>0. Issues /\ UNCHANGED server
  BY ThreadIssues
<1>1. CASE mode = "trash"
  <2>1. CASE Finish
    BY <1>0, <1>1, <2>1, CopyFinish DEF Issues
  <2>2. CASE UNCHANGED <<mode, canceled, muted>>
    BY <1>0, <1>1, <2>2, SmoothBefore DEF Issues, CopyInv
  <2> QED
    BY <1>0, <1>1, <2>1, <2>2 DEF Issues
<1>2. CASE mode # "trash" /\ Started
  <2>1. pc = "start" /\ rest \in Seq(Items) /\ rest # <<>>
    BY <1>2 DEF Started, TypeInv, JobOK
  <2>2. CASE Finish
    BY <1>0, <2>1, <2>2, CopyFinish DEF Issues
  <2>3. CASE BeginTop(rest)
    <3>1. <<rest[1], "data">> \in Resources
      BY <2>1, ResourceTypes, ElementOfSeq, EmptySeq
    <3>2. << <<rest[1], "data">> >> \in Seq(Resources) /\ << <<rest[1], "data">> >> # << >>
      BY <3>1, Single
    <3>3. ASSUME Smooth, NEW i \in Tops, Begun(i, rest) PROVE i = rest[1]
      <4>1. \E n \in DOMAIN rest : rest[n] = i
        BY <1>2, <2>1, <3>3 DEF CopyInv, Tops
      <4> QED
        BY <3>3, <4>1 DEF Begun
    <3>4. Smooth => Left(rest, << <<rest[1], "data">> >>)
      BY <3>3, TopIsDue DEF Left
    <3>5. Formed(rest, << <<rest[1], "data">> >>)
      BY DEF Formed
    <3> QED
      BY <1>0, <1>2, <2>1, <2>3, <3>2, <3>4, <3>5, CopyBegin DEF BeginTop
  <2> QED
    BY <1>2, <2>2, <2>3 DEF Started
<1>3. CASE mode # "trash" /\ DeleteAnswered
  BY <1>3 DEF DeleteAnswered, Answered, TrashInv, Shape
<1> QED
  BY <1>1, <1>2, <1>3, CopyListed, CopyFetched, CopyLocked DEF Thread

\* The answer is what the call is known to have brought.
LEMMA CopyServe == ASSUME TypeInv, TrashInv, CopyInv, Serve PROVE CopyInv'
<1>0. /\ UNCHANGED <<pc, mode, pick, rest, todo, fork, canceled, muted>> /\ answer = "waiting"
      /\ pc # "list" => UNCHANGED listed
      /\ trouble \subseteq trouble'
  <2>1. /\ UNCHANGED <<pc, mode, pick, rest, todo, fork, canceled, muted>> /\ answer = "waiting"
        /\ pc # "list" => UNCHANGED listed
    BY DEF Serve, job
  <2>2. trouble \subseteq trouble'
    BY ServeCases, GetIs DEF ServeList, ServeExists, ServeLock, ServeProps, ServeUnlock,
                             ServeDelete, Noted
  <2> QED
    BY <2>1, <2>2
<1>1. SUFFICES ASSUME Smooth' PROVE CopyInv'
  BY DEF CopyInv
<1>2. Smooth /\ ~canceled' /\ ~muted'
  BY <1>0, <1>1 DEF Smooth, CopyInv
<1>3. SUFFICES ASSUME mode # "trash" PROVE CopyInv'
  BY <1>0, <1>2 DEF CopyInv
<1>4. pc \in LockCalls \cup FetchCalls /\ pc # "delete"
  BY ServeCases, <1>3 DEF LockCalls, FetchCalls, TrashInv, Shape
<1>5. Formed(rest, todo) /\ Left(rest, todo) /\ Brought /\ pc # "rollback"
  BY <1>2, <1>3, <1>4 DEF CopyInv
<1>6. todo \in Seq(Resources) /\ todo # <<>> /\ todo[1] \in Resources
  <2>1. todo \in Seq(Resources) /\ todo # <<>>
    BY <1>4 DEF TypeInv, JobOK, Kinds
  <2> QED
    BY <2>1, ElementOfSeq, EmptySeq
<1>7. UNCHANGED content /\ \A r : There(r)' = There(r)
  <2>1. UNCHANGED content
    BY ServeCases, <1>4 DEF ServeList, ServeExists, ServeGet, ServeLock, ServeProps, ServeUnlock, server
  <2> QED
    BY <2>1 DEF There
<1>8. answer' \in {"ok", "absent"} /\ (answer' = "absent" => pc \in {"exists", "existsLock"})
  BY ServeCases, <1>4 DEF ServeList, ServeExists, ServeGet, ServeLock, ServeProps, ServeUnlock, Respond
<1>9. (\A f \in Files : Got(f) => Got(f)') /\ Brought'
  <2>1. CASE pc \notin {"get", "getRez"}
    <3>1. UNCHANGED <<local, merged>>
      BY ServeCases, <1>4, <2>1 DEF ServeList, ServeExists, ServeLock, ServeProps, ServeUnlock, Respond, disk
    <3>2. pc = "list" => listed' = Listing(todo[1][1])
      BY ServeCases DEF ServeList, Listing
    <3>3. pc = "exists" /\ todo[1] \in Files \X {"data"} => (answer' = "ok" <=> There(Rez))
      <4>1. CASE pc = "exists" /\ todo[1] \in Files \X {"data"}
        <5>1. ServeExists(Rez)
          BY <4>1 DEF Serve, Rez
        <5>2. Rez \in Resources
          BY <4>1, ResourceTypes DEF Rez
        <5> QED
          BY <5>1, <5>2 DEF ServeExists, Respond
      <4> QED
        BY <4>1
    <3>4. Listing(todo[1][1])' = Listing(todo[1][1])
      BY <1>0, <1>7 DEF Listing
    <3>5. Brought'
      BY <1>0, <1>7, <2>1, <3>2, <3>3, <3>4 DEF Brought, Rez
    <3>6. \A f \in Files : Got(f) => Got(f)'
      BY <1>7, <3>1 DEF Got
    <3> QED
      BY <3>5, <3>6
  <2>2. CASE pc = "get"
    <3>1. local' = [local EXCEPT ![todo[1]] = content[todo[1]]] /\ UNCHANGED merged
      BY ServeCases, GetIs, <1>1, <2>2 DEF Smooth
    <3>2. /\ local'[todo[1]] = content[todo[1]]
          /\ \A r \in Resources : local'[r] = local[r] \/ local'[r] = content[r]
      BY <1>6, <3>1 DEF TypeInv, DiskOK
    <3>3. Brought'
      BY <1>0, <1>5, <1>7, <2>2, <3>1, <3>2 DEF Brought, Rez, Fetched
    <3>4. ASSUME NEW f \in Files, Got(f) PROVE Got(f)'
      <4>1. <<f, "data">> \in Resources
        BY ResourceTypes DEF Items
      <4> QED
        BY <1>7, <3>1, <3>2, <3>4, <4>1 DEF Got
    <3> QED
      BY <3>3, <3>4
  <2>3. CASE pc = "getRez"
    <3>1. merged' = [merged EXCEPT ![todo[1][1]] = content[Rez]] /\ UNCHANGED local
      BY ServeCases, GetIs, <1>1, <2>3 DEF Smooth, Rez
    <3>2. todo[1][1] \in Files
      BY <2>3 DEF TypeInv, JobOK, Kinds
    <3>3. /\ merged'[todo[1][1]] = content[Rez]
          /\ \A f \in Files : merged'[f] = merged[f] \/ merged'[f] = content[<<f, "rez">>]
      BY <3>1, <3>2 DEF TypeInv, DiskOK, Rez
    <3>4. Brought'
      BY <1>0, <1>5, <1>7, <2>3, <3>1, <3>3 DEF Brought, Rez, Fetched
    <3>5. \A f \in Files : Got(f) => Got(f)'
      BY <1>7, <3>1, <3>3 DEF Got
    <3> QED
      BY <3>4, <3>5
  <2> QED
    BY <2>1, <2>2, <2>3
<1>10. Left(rest, todo)'
  <2>1. Tops' = Tops
    BY <1>0 DEF Tops
  <2> QED
    BY <1>0, <1>5, <1>9, <2>1, SameWork DEF Left
<1>11. Formed(rest, todo)'
  BY <1>0, <1>5 DEF Formed
<1> QED
  BY <1>0, <1>2, <1>4, <1>5, <1>8, <1>9, <1>10, <1>11 DEF CopyInv, LockCalls, FetchCalls

\* All else goes wrong for a download, or happens before it or on other ground.
LEMMA CopyElse ==
    ASSUME TypeInv, CopyInv,
           \/ Command \/ CancelOperation \/ Refuse \/ CallFails
           \/ \E r \in Resources : OtherWrites(r) \/ OtherDeletes(r) \/ OtherLocks(r) \/ LockEnds(r)
    PROVE  CopyInv'
<1>1. CASE Command
  <2>1. /\ pc' = "start" /\ answer' = "waiting" /\ rest' = pick' /\ canceled' = FALSE /\ muted' = FALSE
    BY <1>1 DEF Command, Download, MoveItemsToTrash, Start, Call
  <2> QED
    BY <2>1 DEF CopyInv, LockCalls, FetchCalls
<1>2. CASE CancelOperation \/ Refuse
  <2>1. "canceled" \in trouble' \/ "foreign" \in trouble'
    BY <1>2 DEF CancelOperation, Refuse, Noted
  <2> QED
    BY <2>1 DEF CopyInv, Smooth
<1>3. CASE CallFails
  <2>1. "lost" \in trouble' \/ (muted /\ UNCHANGED trouble)
    BY <1>3 DEF CallFails, Noted
  <2> QED
    BY <2>1 DEF CopyInv, Smooth
<1>4. ASSUME NEW r \in Resources, OtherWrites(r) \/ OtherDeletes(r) \/ OtherLocks(r) \/ LockEnds(r)
      PROVE  CopyInv'
  <2>1. /\ UNCHANGED <<rows, local, merged, pc, answer, mode, pick, rest, todo, fork, listed, canceled, muted>>
        /\ trouble \subseteq trouble'
        /\ UNCHANGED content \/ "raced" \in trouble' \/ pc = "idle"
    BY <1>4 DEF OtherWrites, OtherDeletes, OtherLocks, LockEnds, Noted, When, Idle, disk, job, flags
  <2>2. SUFFICES ASSUME Smooth' PROVE CopyInv'
    BY DEF CopyInv
  <2>3. Smooth
    BY <2>1, <2>2 DEF Smooth
  <2>4. CASE pc = "idle"
    BY <2>1, <2>3, <2>4 DEF CopyInv, LockCalls, FetchCalls
  <2>5. CASE UNCHANGED content
    <3>1. \A q : There(q)' = There(q) /\ Fetched(q)' = Fetched(q) /\ Got(q)' = Got(q)
      BY <2>1, <2>5 DEF There, Fetched, Got
    <3>2. Tops' = Tops /\ Rez' = Rez /\ Listing(todo[1][1])' = Listing(todo[1][1])
      BY <2>1, <3>1 DEF Tops, Rez, Listing
    <3>3. (Left(rest, todo) => Left(rest, todo)') /\ (Formed(rest, todo) => Formed(rest, todo)')
      BY <2>1, <3>1, <3>2, SameWork DEF Left, Formed
    <3>4. Brought => Brought'
      BY <2>1, <2>5, <3>1, <3>2 DEF Brought
    <3> QED
      BY <2>1, <2>3, <3>3, <3>4 DEF CopyInv
  <2> QED
    BY <2>1, <2>2, <2>4, <2>5 DEF Smooth
<1> QED
  BY <1>1, <1>2, <1>3, <1>4

LEMMA CopyStep == TypeInv /\ TreeThere /\ TrashInv /\ CopyInv /\ [Next]_vars => CopyInv'
<1> SUFFICES ASSUME TypeInv, TreeThere, TrashInv, CopyInv, [Next]_vars PROVE CopyInv'
  OBVIOUS
<1>1. CASE UNCHANGED vars
  <2>1. /\ UNCHANGED <<content, local, merged, pc, answer, mode, pick, rest, todo>>
        /\ UNCHANGED <<fork, listed, canceled, muted, trouble>>
    BY <1>1 DEF vars, server, job, flags, disk
  <2>2. Left(rest, todo)' <=> Left(rest, todo)
    BY <2>1, SameWork DEF Left, Tops, Got, There
  <2>3. Formed(rest, todo)' <=> Formed(rest, todo)
    BY <2>1 DEF Formed
  <2>4. Brought' <=> Brought
    BY <2>1 DEF Brought, Listing, There, Fetched, Rez
  <2> QED
    BY <2>1, <2>2, <2>3, <2>4 DEF CopyInv, Smooth
<1> QED
  BY <1>1, CopyThread, CopyServe, CopyElse DEF Next

\* A download ends in a step of its thread.
LEMMA EndOfThread == TypeInv /\ Next /\ ~Idle /\ Idle' => Thread
<1> SUFFICES ASSUME TypeInv, Next, ~Idle, Idle', ~Thread PROVE FALSE
  OBVIOUS
<1>1. CASE Command
  BY <1>1 DEF Command, Download, MoveItemsToTrash, Start
<1>2. CASE CancelOperation \/ Serve \/ Refuse \/ CallFails
  BY <1>2 DEF CancelOperation, Serve, Refuse, CallFails, Idle
<1>3. CASE \E r \in Resources : OtherWrites(r) \/ OtherDeletes(r) \/ OtherLocks(r) \/ LockEnds(r)
  BY <1>3 DEF OtherWrites, OtherDeletes, OtherLocks, LockEnds, Idle
<1> QED
  BY <1>1, <1>2, <1>3 DEF Next

\* A download, with locks or without, that got to its end without anything going wrong has
\* brought all files of all folders and every file selected, with their resource forks, for
\* whatever tree, selection and order (CDownloadFileThread::_downloadResource and
\* CDownloadAndLockItemsThread).
THEOREM DownloadsAreWhole == Spec => DownloadsAreComplete
<1> DEFINE Bring ==
       ~Idle /\ Idle' /\ pc # "start" /\ mode # "trash" /\ trouble' \subseteq {"replaced"} =>
          \A f \in Files \cap (Tops \cup UNION {Within[d] : d \in Tops \cap Folders}) :
             There(<<f, "data">>) =>
                /\ local[<<f, "data">>] = content[<<f, "data">>]
                /\ Encoding => merged[f] = content[<<f, "rez">>]
<1>1. TypeInv /\ TreeThere /\ TrashInv /\ CopyInv /\ [Next]_vars => [Bring]_vars
  <2> SUFFICES ASSUME TypeInv, TreeThere, TrashInv, CopyInv, Next, ~Idle, Idle', pc # "start", mode # "trash",
                      trouble' \subseteq {"replaced"},
                      NEW f \in Files \cap (Tops \cup UNION {Within[d] : d \in Tops \cap Folders})
               PROVE  Got(f)
    BY DEF Got
  <2>1. Copied
    BY CopyThread, EndOfThread DEF Smooth
  <2>2. \E i \in Tops : Wants(i, f)
    BY DEF Wants, Inside
  <2> QED
    BY <2>1, <2>2 DEF Copied
<1>2. TypeInv /\ TreeThere /\ TrashInv /\ CopyInv /\ [Next]_vars => (TypeInv /\ TreeThere /\ TrashInv /\ CopyInv)'
  BY TypeStep, TreeStep, TrashStep, CopyStep
<1>3. Init => TypeInv /\ TreeThere /\ TrashInv /\ CopyInv
  BY TypeInit, TreeInit, TrashInit, CopyInit
<1>4. [][Bring]_vars <=> DownloadsAreComplete
  BY PTL DEF DownloadsAreComplete
<1> HIDE DEF Bring
<1> QED
  BY <1>1, <1>2, <1>3, <1>4, PTL DEF Spec
-----------------------------------------------------------------------------
\* Why a walk ends if its calls return.  What is still ahead of the item under way, by itself
\* or in a folder that is; and that nothing waits twice, or both by itself and with a folder.
Ahead(resources) == {r \in Resources : Coming(r, resources)}
Apart(resources) ==
    \A m, n \in DOMAIN resources :
        m # n => resources[m] # resources[n] /\ ~Inside(resources[m][1], resources[n][1])
NothingWaitsTwice == Apart(todo)

\* What came of a listing is in the folder that was listed.
ListedIsInside == pc = "list" => \A r \in listed : r[1] \in Children[todo[1][1]]
WalkInv == NothingWaitsTwice /\ ListedIsInside

\* The calls and answers that are ahead of the resource under way.
CallsLeft(call, result) ==
    LET position == [lock |-> 9, props |-> 8, existsLock |-> 7, lockRez |-> 6, propsRez |-> 5,
                     rollback |-> 4, list |-> 3, exists |-> 3, get |-> 2, getRez |-> 1,
                     delete |-> 0]
        pending == [waiting |-> 2, ok |-> 1, absent |-> 1, failed |-> 0]
    IN  3 * position[call] + pending[result]

\* The thread ends, has fewer items left, less left of the item, or fewer calls.
Closer ==
    \/ pc' = "idle"
    \/ Len(rest') < Len(rest)
    \/ /\ rest' = rest /\ pc' # "start"
       /\ \/ pc = "start"
          \/ Cardinality(Ahead(todo')) < Cardinality(Ahead(todo))
          \/ todo' = todo /\ CallsLeft(pc', answer') < CallsLeft(pc, answer)

\* Whatever anybody does leaves the thread where it is or brings it closer to its end.
EachStepCounts == [][~Idle => Closer \/ UNCHANGED <<pc, answer, rest, todo>>]_vars

\* What a folder holds is in no other folder that it is not in itself.
LEMMA ChildInside ==
    ASSUME NEW d \in Folders, NEW c \in Children[d], NEW e \in Folders, c \in Within[e]
    PROVE  e = d \/ d \in Within[e]
  BY WithinSplit, TreeAssumption

\* Two things in one folder are not in each other, nor is the folder in them.
LEMMA ChildrenApart ==
    ASSUME NEW d \in Folders, NEW c \in Children[d]
    PROVE  /\ c \in Within[d] /\ c # d /\ ~Inside(d, c)
           /\ \A b \in Children[d] : ~Inside(b, c)
<1>1. c \in Within[d] /\ d \notin Within[d]
  BY WithinClosed, TreeAssumption DEF Closed
<1>2. ~Inside(d, c)
  BY <1>1, WithinTransitive DEF Inside
<1>3. ASSUME NEW b \in Children[d], Inside(b, c) PROVE FALSE
  BY <1>1, <1>2, <1>3, ChildInside DEF Inside
<1> QED
  BY <1>1, <1>2, <1>3

\* Where the second and later ones of a sequence are after the first has been replaced.
LEMMA JoinsAt ==
    ASSUME NEW S, NEW s \in Seq(S), NEW t \in Seq(S), t # <<>>
    PROVE  /\ Len(s) \in Nat /\ DOMAIN s = 1..Len(s) /\ DOMAIN Joined(s, t) \subseteq Nat
           /\ \A k \in DOMAIN Joined(s, t) :
                 k \notin DOMAIN s => /\ k - Len(s) + 1 \in DOMAIN t /\ k - Len(s) + 1 # 1
                                      /\ Joined(s, t)[k] = t[k - Len(s) + 1]
<1> DEFINE u == Tail(t)
<1>1. /\ u \in Seq(S) /\ Len(u) = Len(t) - 1 /\ \A n \in 1..Len(u) : u[n] = t[n + 1]
  BY HeadTailProperties
<1>2. Len(s) \in Nat /\ Len(t) \in Nat \ {0} /\ DOMAIN s = 1..Len(s) /\ DOMAIN t = 1..Len(t)
  BY LenProperties, EmptySeq
<1> HIDE DEF u
<1>3. DOMAIN (s \o u) = 1..(Len(s) + Len(u))
  <2>1. s \o u \in Seq(S) /\ Len(s \o u) = Len(s) + Len(u)
    BY <1>1, ConcatProperties
  <2> QED
    BY <2>1, LenProperties
<1>4. \A n \in 1..(Len(s) + Len(u)) : (s \o u)[n] = IF n <= Len(s) THEN s[n] ELSE u[n - Len(s)]
  BY <1>1, ConcatProperties
<1>5. ASSUME NEW k \in DOMAIN (s \o u), k \notin DOMAIN s
      PROVE  k - Len(s) + 1 \in DOMAIN t /\ k - Len(s) + 1 # 1 /\ (s \o u)[k] = t[k - Len(s) + 1]
  BY <1>1, <1>2, <1>3, <1>4, <1>5
<1>6. Joined(s, t) = s \o u
  BY DEF Joined, u
<1> QED
  BY <1>1, <1>2, <1>3, <1>5, <1>6

\* What is left to walk once less is ahead and something is not any more.
LEMMA LessAhead ==
    ASSUME NEW s, NEW t, NEW r \in Ahead(t), r \notin Ahead(s), Ahead(s) \subseteq Ahead(t)
    PROVE  Cardinality(Ahead(s)) < Cardinality(Ahead(t))
<1>1. IsFiniteSet(Ahead(t)) /\ IsFiniteSet(Ahead(s))
  BY FiniteResources DEF Ahead
<1>2. Cardinality(Ahead(t)) \in Nat /\ Cardinality(Ahead(s)) \in Nat
  BY <1>1, FS_CardinalityType
<1>3. Cardinality(Ahead(s)) <= Cardinality(Ahead(t))
      /\ (Cardinality(Ahead(s)) = Cardinality(Ahead(t)) => Ahead(s) = Ahead(t))
  BY <1>1, FS_Subset
<1> QED
  BY <1>2, <1>3

\* A resource that is done is not ahead any more, whatever it held: this is one by one...
LEMMA NextIsLess ==
    ASSUME NEW t \in Seq(Resources), t # <<>>, Len(t) # 1, Apart(t)
    PROVE  Apart(Tail(t)) /\ Cardinality(Ahead(Tail(t))) < Cardinality(Ahead(t))
<1>1. /\ \A n \in DOMAIN Tail(t) : Tail(t)[n] = t[n + 1]
      /\ Len(Tail(t)) = Len(t) - 1 /\ DOMAIN Tail(t) = 1..Len(Tail(t))
  <2>1. Tail(t) \in Seq(Resources) /\ \A n \in DOMAIN Tail(t) : Tail(t)[n] = t[n + 1]
    BY Tails
  <2>2. Len(Tail(t)) = Len(t) - 1
    BY HeadTailProperties
  <2> QED
    BY <2>1, <2>2, LenProperties
<1>2. Len(t) \in Nat \ {0} /\ DOMAIN t = 1..Len(t)
  BY LenProperties, EmptySeq
<1>3. \A n \in DOMAIN Tail(t) : n + 1 \in DOMAIN t /\ n + 1 # 1
  BY <1>1, <1>2
<1>4. Apart(Tail(t))
  <2> SUFFICES ASSUME NEW m \in DOMAIN Tail(t), NEW n \in DOMAIN Tail(t), m # n
               PROVE  Tail(t)[m] # Tail(t)[n] /\ ~Inside(Tail(t)[m][1], Tail(t)[n][1])
    BY DEF Apart
  <2>1. m + 1 # n + 1
    BY <1>1, <1>2
  <2> QED
    BY <1>1, <1>3, <2>1 DEF Apart
<1>5. t[1] \in Resources /\ 1 \in DOMAIN t
  BY <1>2, ElementOfSeq
<1>6. t[1] \in Ahead(t)
  BY <1>5 DEF Ahead, Coming, Meant
<1>7. t[1] \notin Ahead(Tail(t))
  BY <1>1, <1>3, <1>5 DEF Ahead, Coming, Meant, Apart
<1>8. Ahead(Tail(t)) \subseteq Ahead(t)
  BY <1>1, <1>3 DEF Ahead, Coming
<1> QED
  BY <1>4, <1>6, <1>7, <1>8, LessAhead

\* ... or, for a folder, all at once: what a listing of it brings takes its place.
LEMMA ListedIsLess ==
    ASSUME NEW t \in Seq(Resources), t # <<>>, Apart(t), t[1][1] \in Folders,
           NEW s \in Seq(Resources), \A m, n \in DOMAIN s : m # n => s[m] # s[n],
           \A n \in DOMAIN s : s[n][1] \in Children[t[1][1]]
    PROVE  Apart(Joined(s, t)) /\ Cardinality(Ahead(Joined(s, t))) < Cardinality(Ahead(t))
<1> DEFINE d == t[1][1]
           j == Joined(s, t)
           at(k) == k - Len(s) + 1
<1>0. /\ t[1] \in Resources /\ 1 \in DOMAIN t
      /\ \A n \in DOMAIN t : t[n] \in Resources
      /\ \A n \in DOMAIN s : s[n] \in Resources
  <2>1. Len(t) \in Nat \ {0} /\ DOMAIN t = 1..Len(t) /\ DOMAIN s = 1..Len(s)
    BY LenProperties, EmptySeq
  <2> QED
    BY <2>1, ElementOfSeq
<1>1. /\ \A k \in DOMAIN s : k \in DOMAIN j /\ j[k] = s[k]
      /\ \A k \in DOMAIN j : k \in DOMAIN s \/ (at(k) \in DOMAIN t /\ at(k) # 1 /\ j[k] = t[at(k)])
      /\ \A k, l \in DOMAIN j : k # l => at(k) # at(l)
  <2>1. \A k \in DOMAIN s : k \in DOMAIN j /\ j[k] = s[k]
    BY Joins
  <2>2. /\ Len(s) \in Nat /\ DOMAIN j \subseteq Nat
        /\ \A k \in DOMAIN j : k \in DOMAIN s \/ (at(k) \in DOMAIN t /\ at(k) # 1 /\ j[k] = t[at(k)])
    BY JoinsAt
  <2> QED
    BY <2>1, <2>2
<1> HIDE DEF j, at
<1>2. d \in Folders /\ t[1] = <<d, "data">> /\ d \notin Within[d]
  BY <1>0, ResourceTypes, TreeAssumption
<1>3. ASSUME NEW k \in DOMAIN s
      PROVE  /\ s[k][1] \in Within[d] /\ s[k] # t[1] /\ ~Inside(d, s[k][1])
             /\ \A l \in DOMAIN s : ~Inside(s[l][1], s[k][1])
  BY <1>2, <1>3, ChildrenApart
<1>4. ASSUME NEW n \in DOMAIN t, n # 1
      PROVE  t[n] # t[1] /\ ~Inside(t[n][1], d) /\ ~Inside(d, t[n][1])
  BY <1>0, <1>4 DEF Apart
<1>5. ASSUME NEW k \in DOMAIN s, NEW n \in DOMAIN t, n # 1
      PROVE  s[k] # t[n] /\ ~Inside(s[k][1], t[n][1]) /\ ~Inside(t[n][1], s[k][1])
  <2>1. s[k] # t[n]
    BY <1>2, <1>3, <1>4, <1>5 DEF Inside
  <2>2. ASSUME Inside(t[n][1], s[k][1]) PROVE FALSE
    BY <1>2, <1>3, <1>4, <1>5, <2>2, WithinTransitive DEF Inside
  <2>3. ASSUME Inside(s[k][1], t[n][1]) PROVE FALSE
    <3>1. t[n][1] \in Folders /\ (t[n][1] = d \/ d \in Within[t[n][1]])
      BY <1>2, <2>3, ChildInside DEF Inside
    <3>2. t[n][1] = d
      BY <1>4, <1>5, <3>1 DEF Inside
    <3>3. t[n] = <<d, "data">>
      BY <1>0, <1>2, <3>2, ResourceTypes
    <3> QED
      BY <1>2, <1>4, <1>5, <3>3
  <2> QED
    BY <2>1, <2>2, <2>3
<1>6. Apart(j)
  <2> SUFFICES ASSUME NEW k \in DOMAIN j, NEW l \in DOMAIN j, k # l
               PROVE  j[k] # j[l] /\ ~Inside(j[k][1], j[l][1])
    BY DEF Apart
  <2>1. CASE k \in DOMAIN s /\ l \in DOMAIN s
    BY <1>1, <1>3, <2>1
  <2>2. CASE k \in DOMAIN s /\ l \notin DOMAIN s
    BY <1>1, <1>5, <2>2
  <2>3. CASE k \notin DOMAIN s /\ l \in DOMAIN s
    BY <1>1, <1>5, <2>3
  <2>4. CASE k \notin DOMAIN s /\ l \notin DOMAIN s
    BY <1>1, <2>4 DEF Apart
  <2> QED
    BY <2>1, <2>2, <2>3, <2>4
<1>7. t[1] \in Ahead(t)
  BY <1>0 DEF Ahead, Coming, Meant
<1>8. ASSUME NEW k \in DOMAIN j PROVE ~Meant(t[1], j[k])
  BY <1>1, <1>2, <1>3, <1>4 DEF Meant
<1>9. t[1] \notin Ahead(j)
  BY <1>8 DEF Ahead, Coming
<1>10. ASSUME NEW r \in Resources, NEW k \in DOMAIN j, Meant(r, j[k]) PROVE Coming(r, t)
  <2>1. CASE k \in DOMAIN s
    <3>1. Inside(r[1], d)
      BY <1>1, <1>2, <1>3, <1>10, <2>1, WithinTransitive DEF Meant, Inside
    <3> QED
      BY <1>0, <3>1 DEF Coming, Meant
  <2>2. CASE k \notin DOMAIN s
    BY <1>1, <1>10, <2>2 DEF Coming
  <2> QED
    BY <2>1, <2>2
<1>11. Ahead(j) \subseteq Ahead(t)
  BY <1>10 DEF Ahead, Coming
<1>12. Cardinality(Ahead(j)) < Cardinality(Ahead(t))
  BY <1>7, <1>9, <1>11, LessAhead
<1> QED
  BY <1>6, <1>12 DEF j

\* What fetching starts with.
Onward(call, items, resources) ==
    pc' = call /\ answer' = "waiting" /\ rest' = items /\ todo' = resources /\ listed' = {}
Fetching(items, resources) ==
    (\E call \in {"list", "exists", "get"} : Onward(call, items, resources)) \/ Finish

LEMMA GetWalks ==
    ASSUME NEW items, NEW resources, NEW new, Get(items, resources, new)
    PROVE  Onward("get", items, resources) \/ Finish
  BY DEF Get, Turn, Call, Onward

LEMMA FetchWalks ==
    ASSUME NEW items, NEW resources, Fetch(items, resources)
    PROVE  Fetching(items, resources)
<1>1. ASSUME NEW call \in {"list", "exists"}, Turn(call, items, resources, FALSE)
      PROVE  Fetching(items, resources)
  <2>1. Onward(call, items, resources)
    BY <1>1 DEF Turn, Call, Onward
  <2>2. \E c \in {"list", "exists", "get"} : Onward(c, items, resources)
    BY <2>1
  <2> QED
    BY <2>2 DEF Fetching
<1>2. CASE Get(items, resources, FALSE)
  BY <1>2, GetWalks DEF Fetching
<1> QED
  BY <1>1, <1>2 DEF Fetch

LEMMA BeginWalks ==
    ASSUME NEW items, NEW resources, Begin(items, resources)
    PROVE  Onward("lock", items, resources) \/ Fetching(items, resources)
  BY FetchWalks DEF Begin, Turn, Call, Onward

LEMMA FinishCounts == Finish => Closer /\ WalkInv'
  BY DEF Finish, Call, Closer, WalkInv, NothingWaitsTwice, Apart, ListedIsInside

\* The next resource of the item, with less ahead.
LEMMA BeginCounts ==
    ASSUME TypeInv, NEW resources, Begin(rest, resources), Apart(resources),
           Cardinality(Ahead(resources)) < Cardinality(Ahead(todo))
    PROVE  Closer /\ WalkInv'
<1>1. CASE \E call \in {"lock", "list", "exists", "get"} : Onward(call, rest, resources)
  BY <1>1 DEF Onward, Closer, WalkInv, NothingWaitsTwice, Apart, ListedIsInside
<1> QED
  BY <1>1, BeginWalks, FinishCounts DEF Fetching

\* The next item, or the first.
LEMMA BeginTopCounts ==
    ASSUME TypeInv, NEW items, BeginTop(items),
           Len(items) < Len(rest) \/ (pc = "start" /\ items = rest)
    PROVE  Closer /\ WalkInv'
<1> DEFINE resources == << <<items[1], "data">> >>
<1>1. Apart(resources)
  BY DEF Apart
<1> HIDE DEF resources
<1>2. CASE \E call \in {"lock", "list", "exists", "get"} : Onward(call, items, resources)
  <2>1. WalkInv'
    BY <1>1, <1>2 DEF Onward, WalkInv, NothingWaitsTwice, Apart, ListedIsInside
  <2>2. Closer
    BY <1>2 DEF Onward, Closer
  <2> QED
    BY <2>1, <2>2
<1>3. Begin(items, resources)
  BY DEF BeginTop, resources
<1> QED
  BY <1>2, <1>3, BeginWalks, FinishCounts DEF Fetching

LEMMA NextTopCounts == ASSUME TypeInv, pc # "idle", NextTop PROVE Closer /\ WalkInv'
<1>1. rest \in Seq(Items) /\ rest # <<>>
  BY DEF TypeInv, JobOK
<1>2. Len(rest) \in Nat /\ Len(Tail(rest)) = Len(rest) - 1
  BY <1>1, HeadTailProperties, EmptySeq
<1>3. Len(Tail(rest)) < Len(rest)
  BY <1>2
<1> QED
  BY <1>3, FinishCounts, BeginTopCounts DEF NextTop

\* The same resource, and the next call for it.
LEMMA CallCounts ==
    ASSUME TypeInv, WalkInv, NEW call, pc' = call, answer' = "waiting", UNCHANGED <<rest, todo>>,
           listed' = {} \/ call # "list",
           \/ pc = "lock" /\ call = "props"
           \/ pc = "props" /\ call \in {"existsLock", "list", "exists", "get"}
           \/ pc = "existsLock" /\ call \in {"lockRez", "list", "exists", "get"}
           \/ pc = "lockRez" /\ call \in {"propsRez", "rollback"}
           \/ pc = "propsRez" /\ call \in {"rollback", "list", "exists", "get"}
           \/ pc = "exists" /\ call = "get"
           \/ pc = "get" /\ call = "getRez"
           \/ pc \in LockCalls \cup FetchCalls /\ call = "delete"
    PROVE  Closer /\ WalkInv'
<1>1. answer \in Answers
  BY DEF TypeInv, FlagsOK
<1>2. CallsLeft(call, "waiting") < CallsLeft(pc, answer)
  BY <1>1 DEF CallsLeft, Answers, LockCalls, FetchCalls
<1>3. Closer
  BY <1>2 DEF Closer, LockCalls, FetchCalls
<1>4. WalkInv'
  BY DEF WalkInv, NothingWaitsTwice, Apart, ListedIsInside
<1> QED
  BY <1>3, <1>4

LEMMA ContinueCounts ==
    ASSUME TypeInv, WalkInv, NEW call, Continue(call),
           \/ pc = "lock" /\ call = "props"
           \/ pc = "props" /\ call = "existsLock"
           \/ pc = "existsLock" /\ call = "lockRez"
           \/ pc = "lockRez" /\ call \in {"propsRez", "rollback"}
           \/ pc = "propsRez" /\ call = "rollback"
           \/ pc = "get" /\ call = "getRez"
           \/ pc \in LockCalls \cup FetchCalls /\ call = "delete"
    PROVE  Closer /\ WalkInv'
  BY CallCounts DEF Continue, Call, job

LEMMA FetchCounts ==
    ASSUME TypeInv, WalkInv, Fetch(rest, todo), pc \in {"props", "existsLock", "propsRez"}
    PROVE  Closer /\ WalkInv'
<1>1. CASE \E call \in {"list", "exists", "get"} : Onward(call, rest, todo)
  BY <1>1, CallCounts DEF Onward
<1> QED
  BY <1>1, FetchWalks, FinishCounts DEF Fetching

LEMMA DoneCounts ==
    ASSUME TypeInv, WalkInv, pc \in LockCalls \cup FetchCalls, NEW ok, Done(ok)
    PROVE  Closer /\ WalkInv'
<1>1. pc # "idle" /\ todo \in Seq(Resources) /\ todo # <<>>
  BY DEF TypeInv, JobOK, Kinds, LockCalls, FetchCalls
<1>2. ASSUME NEW fine, TopDone(fine) PROVE Closer /\ WalkInv'
  BY <1>1, <1>2, ContinueCounts, NextTopCounts, FinishCounts DEF TopDone
<1>3. CASE Len(todo) # 1 /\ Begin(rest, Tail(todo))
  BY <1>1, <1>3, NextIsLess, BeginCounts DEF WalkInv, NothingWaitsTwice
<1> QED
  BY <1>2, <1>3, FinishCounts DEF Done

\* What a listing brought takes the place of the folder.
LEMMA ListCounts == ASSUME TypeInv, WalkInv, ListAnswered PROVE Closer /\ WalkInv'
<1>1. pc = "list" /\ pc \in FetchCalls
  BY DEF ListAnswered, Answered, FetchCalls
<1>2. todo \in Seq(Resources) /\ todo # <<>> /\ todo[1][1] \in Folders /\ listed \subseteq Resources
  BY <1>1 DEF TypeInv, JobOK, Kinds, FlagsOK
<1>3. PICK found \in SUBSET listed :
         IF found = {} THEN Done(TRUE)
         ELSE \E order \in SetToSeqs(found) : Begin(rest, Joined(order, todo))
  BY DEF ListAnswered, Joined
<1>4. CASE found # {}
  <2>1. PICK order \in SetToSeqs(found) : Begin(rest, Joined(order, todo))
    BY <1>3, <1>4
  <2>2. found \subseteq Resources
    BY <1>2
  <2>3. order \in Seq(found) /\ order \in Seq(Resources) /\ \A m, n \in DOMAIN order : m # n => order[m] # order[n]
    BY <2>1, <2>2, FiniteResources, Orders, SeqMonotonic
  <2>4. \A n \in DOMAIN order : order[n] \in found
    BY <2>3, ElementOfSeq, LenProperties
  <2>5. \A n \in DOMAIN order : order[n][1] \in Children[todo[1][1]]
    BY <1>1, <2>4 DEF WalkInv, ListedIsInside
  <2> QED
    BY <1>2, <2>1, <2>3, <2>5, ListedIsLess, BeginCounts DEF WalkInv, NothingWaitsTwice
<1> QED
  BY <1>1, <1>3, <1>4, DoneCounts

LEMMA ThreadCounts == ASSUME TypeInv, WalkInv, Thread PROVE Closer /\ WalkInv'
<1>1. CASE Started
  BY <1>1, FinishCounts, BeginTopCounts DEF Started
<1>2. CASE ExistsAnswered
  BY <1>2, GetWalks, FinishCounts, CallCounts DEF ExistsAnswered, Answered, Onward
<1>3. CASE GetAnswered \/ GetRezAnswered
  BY <1>3, ContinueCounts, DoneCounts DEF GetAnswered, GetRezAnswered, Answered, FetchCalls
<1>4. CASE DeleteAnswered
  BY <1>4, NextTopCounts DEF DeleteAnswered, Answered
<1>5. CASE LockAnswered \/ RollbackAnswered
  BY <1>5, ContinueCounts, DoneCounts DEF LockAnswered, RollbackAnswered, Answered, LockCalls
<1>6. CASE PropsAnswered \/ ExistsLockAnswered
  BY <1>6, ContinueCounts, DoneCounts, FetchCounts
     DEF PropsAnswered, ExistsLockAnswered, Answered, LockCalls
<1>7. CASE LockRezAnswered \/ PropsRezAnswered
  BY <1>7, ContinueCounts, FetchCounts DEF LockRezAnswered, PropsRezAnswered, Answered
<1> QED
  BY <1>1, <1>2, <1>3, <1>4, <1>5, <1>6, <1>7, ListCounts DEF Thread

\* An answer, or its loss, comes once.
LEMMA AnswerCounts ==
    ASSUME TypeInv, WalkInv, UNCHANGED <<pc, rest, todo>>, pc \notin {"idle", "start"},
           \/ answer = "waiting" /\ answer' \in {"ok", "absent", "failed"}
           \/ answer # "failed" /\ answer' = "failed"
    PROVE  Closer
<1>1. answer \in Answers /\ pc \in {"delete"} \cup LockCalls \cup FetchCalls
  BY DEF TypeInv, FlagsOK, JobOK
<1>2. CallsLeft(pc, answer') < CallsLeft(pc, answer)
  BY <1>1 DEF CallsLeft, Answers, LockCalls, FetchCalls
<1> QED
  BY <1>2 DEF Closer

LEMMA StepCounts ==
    ASSUME TypeInv, WalkInv, [Next]_vars
    PROVE  WalkInv' /\ (~Idle => Closer \/ UNCHANGED <<pc, answer, rest, todo>>)
<1>1. CASE Command
  BY <1>1 DEF Command, Download, MoveItemsToTrash, Start, Call, Idle, WalkInv, NothingWaitsTwice,
             Apart, ListedIsInside
<1>2. ASSUME UNCHANGED <<pc, rest, todo>>,
             \A r \in listed' : r \in listed \/ (pc = "list" => r[1] \in Children[todo[1][1]])
      PROVE  WalkInv'
  BY <1>2 DEF WalkInv, NothingWaitsTwice, Apart, ListedIsInside
<1>3. CASE CancelOperation
  <2>1. UNCHANGED <<pc, rest, todo>> /\ (listed' = {} \/ UNCHANGED listed)
        /\ (UNCHANGED answer \/ (pc # "start" /\ answer' = "failed"))
    BY <1>3 DEF CancelOperation, Fail, job
  <2>2. pc # "idle"
    BY <1>3 DEF CancelOperation, Idle
  <2> QED
    BY <1>2, <2>1, <2>2, AnswerCounts
<1>4. CASE Refuse \/ CallFails
  <2>1. /\ UNCHANGED <<pc, rest, todo>> /\ listed' = {} /\ pc \notin {"idle", "start"}
        /\ answer # "failed" /\ answer' = "failed"
    BY <1>4 DEF Refuse, CallFails, Fail, job, Refusable
  <2> QED
    BY <1>2, <2>1, AnswerCounts
<1>5. CASE Serve
  <2>1. /\ UNCHANGED <<pc, rest, todo>> /\ answer = "waiting" /\ answer' \in {"ok", "absent"}
        /\ pc \notin {"idle", "start"}
        /\ \A r \in listed' : r \in listed \/ (pc = "list" => r[1] \in Children[todo[1][1]])
    BY <1>5 DEF Serve, ServeList, ServeExists, ServeGet, ServeLock, ServeProps, ServeUnlock,
                ServeDelete, Respond, job
  <2> QED
    BY <1>2, <2>1, AnswerCounts
<1>6. CASE UNCHANGED vars \/ \E r \in Resources : OtherWrites(r) \/ OtherDeletes(r) \/ OtherLocks(r) \/ LockEnds(r)
  BY <1>2, <1>6 DEF OtherWrites, OtherDeletes, OtherLocks, LockEnds, vars, job, flags
<1> QED
  BY <1>1, <1>3, <1>4, <1>5, <1>6, ThreadCounts DEF Next

LEMMA WalkInit == Init => WalkInv
  BY DEF Init, WalkInv, NothingWaitsTwice, Apart, ListedIsInside

\* No resource waits twice to be fetched, and none that is in a folder that waits
\* (CDownloadFileThread::_downloadResource puts what a listing brings in front).
THEOREM EachWaitsOnce == Spec => []NothingWaitsTwice
  BY TypeInit, TypeStep, WalkInit, StepCounts, PTL DEF Spec, WalkInv

\* The walk is bounded by the tree, whatever is listed, fails or is canceled on the way:
\* CDownloadFileThread, CDownloadAndLockItemsThread, CMoveItemsToTrashThread.
THEOREM WalksRunDown == Spec => EachStepCounts
<1> DEFINE Count == ~Idle => Closer \/ UNCHANGED <<pc, answer, rest, todo>>
<1>1. TypeInv /\ WalkInv /\ [Next]_vars => [Count]_vars
  BY StepCounts
<1>2. TypeInv /\ WalkInv /\ [Next]_vars => (TypeInv /\ WalkInv)'
  BY TypeStep, StepCounts
<1>3. Init => TypeInv /\ WalkInv
  BY TypeInit, WalkInit
<1>4. [][Count]_vars <=> EachStepCounts
  BY PTL DEF EachStepCounts
<1> HIDE DEF Count
<1> QED
  BY <1>1, <1>2, <1>3, <1>4, PTL DEF Spec
=============================================================================
