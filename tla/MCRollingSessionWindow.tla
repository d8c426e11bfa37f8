------------------------ MODULE MCRollingSessionWindow ------------------------
(* Model-checking instance of the session window on its own: every head    *)
(* session 0..MaxSession in any order, restarts at any time.              *)
EXTENDS RollingSessionWindow

\* Highest session index a head reports.  With APPROVAL_SESSIONS = 6 this
\* covers first loads that saturate at 0, partial rolls, full rolls and
\* jumps further than a window.
MaxSession == 14

MCSessions == 0..MaxSession
=============================================================================
