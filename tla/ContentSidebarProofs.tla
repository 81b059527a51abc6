------------------------- MODULE ContentSidebarProofs -------------------------
(***************************************************************************)
(* Proofs about ContentSidebar for every set of benchmarks: the type       *)
(* invariant, that the page always holds exactly one overlay per sidebar   *)
(* iframe and no iframe but the one the content script holds, and that a   *)
(* sidebar on the page never shows a status the worker has since replaced. *)
(* The last needs two facts about the sidebar page: isRunning is set only  *)
(* by a running status it heard, and a page that has not mounted its       *)
(* listener has heard nothing.                                             *)
(***************************************************************************)
EXTENDS ContentSidebar, FiniteSetTheorems, TLAPS

\* handleBenchmarkStatus sets isRunning only for a running status.
ViewFromHeard == viewRunning => \E b \in Benchmarks : heard[b] = "running"

\* A sidebar page that has not mounted its listener is in its initial state.
UnmountedFresh ==
    ~ready => ~viewRunning /\ \A b \in Benchmarks : heard[b] = "none"

\* The first half of SidebarNotStale, for every state with a sidebar.
Synced == sidebar # None => \A b \in Benchmarks : heard[b] \in {"none", sent[b]}

Inv == TypeOK /\ OverlayWithSidebar /\ ViewFromHeard /\ UnmountedFresh /\ Synced

\* The two helper invariants give the property.
LEMMA NotStaleFromInv ==
    ASSUME ViewFromHeard, Synced PROVE SidebarNotStale
BY DEF ViewFromHeard, Synced, SidebarNotStale

(***************************************************************************)
(* With at most one iframe in the page, the overlay invariant says: no     *)
(* iframe and no overlay, or the held iframe and one overlay.              *)
(***************************************************************************)
OverlayShape ==
    \/ page = {} /\ overlays = 0
    \/ page = {sidebar} /\ overlays = 1

LEMMA OverlayCount ==
    ASSUME NEW p, NEW s, NEW o
    PROVE  (p \subseteq {s} /\ o = Cardinality(p))
           <=> ((p = {} /\ o = 0) \/ (p = {s} /\ o = 1))
<1>1. p \subseteq {s} <=> (p = {} \/ p = {s})
    OBVIOUS
<1>2. Cardinality({}) = 0 /\ Cardinality({s}) = 1
    BY FS_EmptySet, FS_Singleton
<1>. QED
    BY <1>1, <1>2

\* A sidebar that is null has no iframe in the page.
LEMMA NoSidebarNoPage ==
    ASSUME TypeOK, OverlayShape, sidebar = None
    PROVE  page = {} /\ overlays = 0
BY NoneAssumption DEF TypeOK, OverlayShape

-----------------------------------------------------------------------------
(***************************************************************************)
(* The initial page has no sidebar, no overlay and a page that heard      *)
(* nothing.                                                                *)
(***************************************************************************)
LEMMA InitInv == Init => Inv
<1> SUFFICES ASSUME Init PROVE Inv
    OBVIOUS
<1>1. TypeOK
    BY NoneAssumption DEF Init, TypeOK, Reported
<1>2. OverlayShape
    BY DEF Init, OverlayShape
<1>3. ViewFromHeard /\ UnmountedFresh /\ Synced
    BY DEF Init, ViewFromHeard, UnmountedFresh, Synced
<1>. QED
    BY <1>1, <1>2, <1>3, OverlayCount DEF Inv, OverlayWithSidebar, OverlayShape

(***************************************************************************)
(* Each step keeps the invariants: one step per action, and under it one  *)
(* per invariant the action touches.                                       *)
(***************************************************************************)
Views == ViewFromHeard /\ UnmountedFresh /\ Synced

LEMMA NextInv == Inv /\ [Next]_vars => Inv'
<1> SUFFICES ASSUME TypeOK, OverlayShape, Views, [Next]_vars
             PROVE  TypeOK' /\ OverlayShape' /\ Views'
    BY OverlayCount DEF Inv, OverlayWithSidebar, OverlayShape, Views
<1>1. CASE OpenSidebar
    <2>1. page = {} /\ overlays = 0
        BY <1>1, NoSidebarNoPage DEF OpenSidebar
    <2>2. TypeOK'
        <3>1. sidebar' \in Nat /\ page' \subseteq Nat /\ overlays' \in Nat
              /\ nextFrame' \in Nat
            BY <1>1 DEF OpenSidebar, TypeOK
        <3>2. heard' \in [Benchmarks -> Reported]
            BY <1>1 DEF OpenSidebar, FreshView, Reported
        <3>3. ready' \in BOOLEAN /\ viewRunning' \in BOOLEAN
            BY <1>1 DEF OpenSidebar, FreshView
        <3>4. timers' \in Nat /\ sent' \in [Benchmarks -> Reported]
              /\ asked' \subseteq Nat
            BY <1>1 DEF OpenSidebar, TypeOK
        <3>. QED
            BY <3>1, <3>2, <3>3, <3>4 DEF TypeOK
    <2>3. OverlayShape'
        BY <1>1, <2>1 DEF OpenSidebar, OverlayShape
    <2>4. Views'
        BY <1>1 DEF OpenSidebar, FreshView, Views, ViewFromHeard,
                    UnmountedFresh, Synced
    <2>. QED
        BY <2>2, <2>3, <2>4
<1>2. CASE CloseSidebar
    BY <1>2 DEF CloseSidebar, TypeOK, OverlayShape, Views, ViewFromHeard,
                UnmountedFresh, Synced
<1>3. CASE ToggleSidebar
    <2>1. CloseSidebar \/ OpenSidebar
        BY <1>3 DEF ToggleSidebar
    <2>. QED
        BY <2>1, <1>1, <1>2
<1>4. CASE CloseTimerFires
    <2>0. sidebar' = None /\ UNCHANGED <<ready, viewRunning, heard, sent>>
        BY <1>4 DEF CloseTimerFires
    <2>5. Views'
        BY <2>0 DEF Views, ViewFromHeard, UnmountedFresh, Synced
    <2>1. CASE sidebar # None
        <3>1. page' = {} /\ sidebar' = None
            BY <1>4, <2>1 DEF CloseTimerFires, OverlayShape
        <3>2. overlays' = 0
            BY <1>4, <2>1 DEF CloseTimerFires, OverlayShape
        <3>3. TypeOK'
            BY <1>4, <3>1, <3>2 DEF CloseTimerFires, TypeOK
        <3>4. OverlayShape'
            BY <3>1, <3>2 DEF OverlayShape
        <3>. QED
            BY <3>3, <3>4, <2>5
    <2>2. CASE sidebar = None
        <3>1. page = {} /\ overlays = 0
            BY <2>2, NoSidebarNoPage
        <3>2. page' = {} /\ sidebar' = None /\ overlays' = 0
            BY <1>4, <2>2, <3>1 DEF CloseTimerFires
        <3>3. TypeOK'
            BY <1>4, <3>2 DEF CloseTimerFires, TypeOK
        <3>4. OverlayShape'
            BY <3>2 DEF OverlayShape
        <3>. QED
            BY <3>3, <3>4, <2>5
    <2>. QED
        BY <2>1, <2>2
<1>5. CASE SidebarLoads
    <2>1. ~viewRunning /\ \A b \in Benchmarks : heard[b] = "none"
        BY <1>5 DEF SidebarLoads, Views, UnmountedFresh
    <2>. QED
        BY <1>5, <2>1 DEF SidebarLoads, TypeOK, OverlayShape, Views,
                          ViewFromHeard, UnmountedFresh, Synced
<1>6. CASE \E b \in Benchmarks, s \in {"running"} \cup Final : Broadcast(b, s)
    <2>1. PICK b \in Benchmarks, s \in {"running"} \cup Final : Broadcast(b, s)
        BY <1>6
    <2>2. TypeOK'
        BY <2>1 DEF Broadcast, ViewStatus, TypeOK, Reported, Final
    <2>3. OverlayShape'
        BY <2>1 DEF Broadcast, OverlayShape
    <2>4. sent' = [sent EXCEPT ![b] = s] /\ UNCHANGED <<sidebar, ready>>
        BY <2>1 DEF Broadcast
    <2>5. CASE sidebar # None /\ ready
        <3>1. viewRunning' = (s = "running") /\ heard' = [heard EXCEPT ![b] = s]
            BY <2>1, <2>5 DEF Broadcast, ViewStatus
        <3>2. ViewFromHeard'
            BY <3>1 DEF ViewFromHeard, TypeOK
        <3>3. UnmountedFresh'
            BY <2>4, <2>5 DEF UnmountedFresh
        <3>4. Synced'
            BY <2>4, <3>1 DEF Synced, Views, TypeOK
        <3>. QED
            BY <2>2, <2>3, <3>2, <3>3, <3>4 DEF Views
    <2>6. CASE ~(sidebar # None /\ ready)
        <3>1. UNCHANGED <<viewRunning, heard>>
            BY <2>1, <2>6 DEF Broadcast
        <3>2. sidebar = None \/ (\A c \in Benchmarks : heard[c] = "none")
            BY <2>6 DEF Views, UnmountedFresh
        <3>. QED
            BY <2>2, <2>3, <2>4, <3>1, <3>2 DEF Views, ViewFromHeard,
               UnmountedFresh, Synced
    <2>. QED
        BY <2>5, <2>6
<1>7. CASE StopBenchmark
    BY <1>7 DEF StopBenchmark, TypeOK, OverlayShape, Views, ViewFromHeard,
                UnmountedFresh, Synced
<1>8. CASE UNCHANGED vars
    BY <1>8 DEF vars, TypeOK, OverlayShape, Views, ViewFromHeard,
                UnmountedFresh, Synced
<1>. QED
    BY <1>1, <1>2, <1>3, <1>4, <1>5, <1>6, <1>7, <1>8 DEF Next

-----------------------------------------------------------------------------
(***************************************************************************)
(* The page is never left with an orphaned overlay or a second sidebar     *)
(* (closeSidebar's timer and openSidebar in content-script.ts), and a      *)
(* sidebar on the page never shows a status the worker has replaced since *)
(* (the relay in content-script.ts and handleBenchmarkStatus in           *)
(* sidebar.tsx): for every set of benchmarks and every number of toggles,  *)
(* not only TLC's three sidebars.                                          *)
(***************************************************************************)
THEOREM SidebarInvariants ==
    Spec => [](TypeOK /\ OverlayWithSidebar /\ SidebarNotStale)
<1>1. Init => Inv
    BY InitInv
<1>2. Inv /\ [Next]_vars => Inv'
    BY NextInv
<1>3. Inv => TypeOK /\ OverlayWithSidebar /\ SidebarNotStale
    BY NotStaleFromInv DEF Inv
<1>. QED
    BY <1>1, <1>2, <1>3, PTL DEF Spec

(***************************************************************************)
(* A sidebar on the page holds, for every benchmark, nothing or the status *)
(* the worker last broadcast, and shows a run only while the worker last  *)
(* said some benchmark is running, across closes, timers and reopens.     *)
(***************************************************************************)
THEOREM SidebarNotStaleProved == Spec => []SidebarNotStale
BY SidebarInvariants, PTL

(***************************************************************************)
(* Every variable of the content script and the sidebar page stays in its  *)
(* type: frame numbers, timer counts and the heard statuses.               *)
(***************************************************************************)
THEOREM SidebarTypeCorrect == Spec => []TypeOK
BY SidebarInvariants, PTL
=============================================================================
