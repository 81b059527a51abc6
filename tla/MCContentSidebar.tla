--------------------------- MODULE MCContentSidebar ---------------------------
EXTENDS ContentSidebar, TLC

\* Bounds: three sidebars opened in turn and two close timers pending at once.
MaxFrames == 3
MaxTimers == 2

MCBound == nextFrame <= MaxFrames + 1 /\ timers <= MaxTimers
====
