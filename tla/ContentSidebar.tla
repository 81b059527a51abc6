---------------------------- MODULE ContentSidebar ----------------------------
(***************************************************************************)
(* The content script's sidebar (src/content/content-script.ts) and the    *)
(* sidebar page loaded in it (src/sidebar/sidebar.tsx).  The content      *)
(* script opens the sidebar as an iframe plus an overlay, closes it with a *)
(* 300 ms timer, and relays each BENCHMARK_STATUS broadcast to the iframe  *)
(* with postMessage.  The page inside tracks isRunning from the statuses   *)
(* it hears.  The broadcasts come from the service worker: per benchmark,  *)
(* running statuses and then final ones.                                   *)
(***************************************************************************)
EXTENDS Naturals, FiniteSets

CONSTANTS
    Benchmarks, \* ids of benchmarks whose broadcasts reach this tab
    None        \* this.sidebar === null

\* null is not an iframe: the sentinel is none of the frame numbers.
ASSUME NoneAssumption == None \notin Nat

Final == {"completed", "failed"}

VARIABLES
    sidebar,    \* this.sidebar: the iframe the content script holds, or None
    page,       \* the sidebar iframes in the page's DOM
    overlays,   \* the number of overlay divs in the page's DOM
    timers,     \* closeSidebar timers that have not fired yet
    nextFrame,  \* the iframe document.createElement returns next
    ready,      \* the page in the iframe has registered its message listener
    viewRunning,\* the sidebar page's isRunning
    heard,      \* heard[b]: the last status of b the sidebar page received
    sent,       \* sent[b]: the last status of b the service worker broadcast
    asked       \* history: iframes closeSidebar was called for

vars == <<sidebar, page, overlays, timers, nextFrame, ready, viewRunning, heard,
          sent, asked>>

Reported == {"none", "running"} \cup Final

TypeOK ==
    /\ sidebar \in Nat \cup {None}
    /\ page \subseteq Nat
    /\ overlays \in Nat
    /\ timers \in Nat
    /\ nextFrame \in Nat
    /\ ready \in BOOLEAN
    /\ viewRunning \in BOOLEAN
    /\ heard \in [Benchmarks -> Reported]
    /\ sent \in [Benchmarks -> Reported]
    /\ asked \subseteq Nat

Init ==
    /\ sidebar = None
    /\ page = {}
    /\ overlays = 0
    /\ timers = 0
    /\ nextFrame = 1
    /\ ready = FALSE
    /\ viewRunning = FALSE
    /\ heard = [b \in Benchmarks |-> "none"]
    /\ sent = [b \in Benchmarks |-> "none"]
    /\ asked = {}

\* A fresh sidebar page: the SidebarApp's initial state.
FreshView ==
    /\ ready' = FALSE
    /\ viewRunning' = FALSE
    /\ heard' = [b \in Benchmarks |-> "none"]

\* openSidebar: append a new iframe and an overlay.
OpenSidebar ==
    /\ sidebar = None
    /\ sidebar' = nextFrame
    /\ page' = page \cup {nextFrame}
    /\ overlays' = overlays + 1
    /\ nextFrame' = nextFrame + 1
    /\ FreshView
    /\ UNCHANGED <<timers, sent, asked>>

\* closeSidebar: start the slide-out and a 300 ms timer; this.sidebar stays.
CloseSidebar ==
    /\ sidebar # None
    /\ timers' = timers + 1
    /\ asked' = asked \cup {sidebar}
    /\ UNCHANGED <<sidebar, page, overlays, nextFrame, ready, viewRunning, heard,
                   sent>>

\* Ctrl+Shift+M: toggleSidebar.
ToggleSidebar == IF sidebar # None THEN CloseSidebar ELSE OpenSidebar

\* Mutant: the timer removes the iframe and leaves the overlay.
CloseTimerKeepsOverlay ==
    /\ timers > 0
    /\ timers' = timers - 1
    /\ IF sidebar # None
       THEN /\ page' = page \ {sidebar}
            /\ sidebar' = None
       ELSE UNCHANGED <<page, sidebar>>
    /\ UNCHANGED <<overlays, nextFrame, ready, viewRunning, heard, sent, asked>>

\* Mutant: the overlay removed without the `if (overlay)` check.
CloseTimerNoOverlayCheck ==
    /\ timers > 0
    /\ timers' = timers - 1
    /\ IF sidebar # None
       THEN /\ page' = page \ {sidebar}
            /\ sidebar' = None
       ELSE UNCHANGED <<page, sidebar>>
    /\ overlays' = overlays - 1
    /\ UNCHANGED <<nextFrame, ready, viewRunning, heard, sent, asked>>

\* The timer fires: remove whatever this.sidebar is now, and the first overlay.
CloseTimerFires ==
    /\ timers > 0
    /\ timers' = timers - 1
    /\ IF sidebar # None
       THEN /\ page' = page \ {sidebar}
            /\ sidebar' = None
       ELSE UNCHANGED <<page, sidebar>>
    /\ overlays' = IF overlays > 0 THEN overlays - 1 ELSE 0
    /\ UNCHANGED <<nextFrame, ready, viewRunning, heard, sent, asked>>

\* The page in the iframe mounts and adds its window message listener.
SidebarLoads ==
    /\ sidebar \in page
    /\ ~ready
    /\ ready' = TRUE
    /\ UNCHANGED <<sidebar, page, overlays, timers, nextFrame, viewRunning, heard,
                   sent, asked>>

\* Mutant: isRunning only ever set, never cleared by a final status.
ViewStatusKeepsRunning(s) == IF s = "running" THEN TRUE ELSE viewRunning

\* The sidebar page's handleBenchmarkStatus: isRunning follows this status.
ViewStatus(s) == s = "running"

(***************************************************************************)
(* The service worker broadcasts status s of benchmark b and the content   *)
(* script's handleBenchmarkStatus relays it to the iframe if there is one; *)
(* a page that has not mounted yet does not hear it.  The runner never     *)
(* announces running after a final status, but it may announce final      *)
(* statuses more than once, and a failed one after a completed one (its   *)
(* deferred tabs.query callbacks read the result as it is when they run). *)
(***************************************************************************)
Broadcast(b, s) ==
    /\ s = "running" => sent[b] \in {"none", "running"}
    /\ sent' = [sent EXCEPT ![b] = s]
    /\ IF sidebar # None /\ ready
       THEN /\ viewRunning' = ViewStatus(s)
            /\ heard' = [heard EXCEPT ![b] = s]
       ELSE UNCHANGED <<viewRunning, heard>>
    /\ UNCHANGED <<sidebar, page, overlays, timers, nextFrame, ready, asked>>

\* The sidebar page's Stop button: handleStopBenchmark.
StopBenchmark ==
    /\ sidebar # None /\ ready
    /\ viewRunning' = FALSE
    /\ UNCHANGED <<sidebar, page, overlays, timers, nextFrame, ready, heard, sent,
                   asked>>

Next ==
    \/ ToggleSidebar
    \/ CloseSidebar
    \/ CloseTimerFires
    \/ SidebarLoads
    \/ \E b \in Benchmarks, s \in {"running"} \cup Final : Broadcast(b, s)
    \/ StopBenchmark

Spec == Init /\ [][Next]_vars

(***************************************************************************)
(* The page is never left with an overlay and no sidebar, nor with two     *)
(* sidebars: the only iframe in it is the one the content script holds,   *)
(* and there is an overlay exactly when there is an iframe.  An orphaned   *)
(* overlay would block the page for good, since its click handler calls   *)
(* closeSidebar, which returns at once when this.sidebar is null.          *)
(***************************************************************************)
OverlayWithSidebar ==
    /\ page \subseteq {sidebar}
    /\ overlays = Cardinality(page)

(***************************************************************************)
(* A sidebar on the page never shows stale state, whatever the order of    *)
(* broadcasts, relays, closes, 300 ms timers and reopens: for every        *)
(* benchmark its results list holds either nothing (a broadcast made       *)
(* before the page mounted its listener is lost) or the status the worker *)
(* last broadcast, and it shows a run only while the worker's last        *)
(* broadcast about some benchmark said running.                            *)
(***************************************************************************)
SidebarNotStale ==
    sidebar # None =>
        /\ \A b \in Benchmarks : heard[b] \in {"none", sent[b]}
        /\ viewRunning => \E b \in Benchmarks : sent[b] = "running"

(***************************************************************************)
(* A sidebar leaves the page only after closeSidebar was called for it.    *)
(***************************************************************************)
SidebarRemovedOnlyWhenClosed ==
    \A n \in 1..(nextFrame - 1) : n \notin page => n \in asked

====
