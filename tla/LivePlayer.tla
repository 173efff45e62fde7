----------------------------- MODULE LivePlayer -----------------------------
(***************************************************************************)
(* The player of NiubiPlayer.tla with the window it draws on: the global   *)
(* `window` of app_liveplayer.cpp, shared by the UI thread (surfaceChanged, *)
(* release) and the render thread of the video channel, whose callback may *)
(* give the window up as well.  A section between pthread_mutex_lock and   *)
(* pthread_mutex_unlock is one step for the UI thread and up to three for  *)
(* the render thread, so that a section that forgets the mutex shows.      *)
(***************************************************************************)
EXTENDS NiubiPlayer

VARIABLES window,  \* there is a window
          refs,    \* references to native windows that the process holds
          mutex,   \* the render thread holds the mutex
          draw,    \* where renderFrameCallBack is
          gone     \* native_release has released the window

windowVars == <<window, refs, mutex, draw, gone>>
liveVars == <<vars, windowVars>>

Held == IF window THEN 1 ELSE 0

LiveInit ==
    /\ Init
    /\ window = FALSE /\ refs = 0 /\ mutex = FALSE
    /\ draw = "idle" /\ gone = FALSE

-----------------------------------------------------------------------------
(* The UI thread. *)

\* surfaceChanged, when the UI thread is not inside another native method and
\* the callback not removed: the old window is released, the new one acquired.
SetSurface ==
    /\ ui \in {"new", "prepared", "stopped"}
    /\ ~mutex
    /\ window' = TRUE
    /\ refs' = refs - Held + 1
    /\ UNCHANGED <<vars, mutex, draw, gone>>

\* Mutant of ReleaseWindow: the mutex is forgotten.
ReleaseWindowUnlocked ==
    /\ ui = "releasing" /\ ~gone
    /\ window' = FALSE
    /\ refs' = refs - Held
    /\ gone' = TRUE
    /\ UNCHANGED <<vars, mutex, draw>>

\* native_release, after the player has been deleted.
ReleaseWindow ==
    /\ ui = "releasing" /\ ~gone
    /\ ~mutex
    /\ window' = FALSE
    /\ refs' = refs - Held
    /\ gone' = TRUE
    /\ UNCHANGED <<vars, mutex, draw>>

-----------------------------------------------------------------------------
(* renderFrameCallBack, on the render thread of a started video channel. *)

\* The mutex is taken and there is a window.
DrawBegin ==
    /\ channel["video"] = "started"
    /\ draw = "idle" /\ ~mutex /\ window
    /\ mutex' = TRUE
    /\ draw' = "lock"
    /\ UNCHANGED <<vars, window, refs, gone>>

\* ANativeWindow_lock yields a buffer.
DrawLock ==
    /\ draw = "lock"
    /\ draw' = "copy"
    /\ UNCHANGED <<vars, window, refs, mutex, gone>>

\* ANativeWindow_lock fails, as it does when the surface is gone: surfaceDestroyed
\* tells nobody.  The window is given up.
DrawLockFails ==
    /\ draw = "lock"
    /\ window' = FALSE
    /\ refs' = refs - 1
    /\ mutex' = FALSE
    /\ draw' = "idle"
    /\ UNCHANGED <<vars, gone>>

\* The lines are copied and the buffer posted.
DrawPost ==
    /\ draw = "copy"
    /\ mutex' = FALSE
    /\ draw' = "idle"
    /\ UNCHANGED <<vars, window, refs, gone>>

-----------------------------------------------------------------------------
DrawStep == DrawLock \/ DrawLockFails \/ DrawPost

\* A step of the player: stop() of the video channel joins the render thread, and
\* native_release returns when the window has been released.
PlayerStep ==
    /\ Next
    /\ channel'["video"] = "stopped" => draw = "idle"
    /\ ui' = "released" => gone
    /\ UNCHANGED windowVars

LiveNext ==
    \/ PlayerStep
    \/ fault = "none" /\ (SetSurface \/ ReleaseWindow \/ DrawBegin \/ DrawStep)

LiveSpec == LiveInit /\ [][LiveNext]_liveVars

\* As in NiubiPlayer, and neither thread stays inside its section.
LiveFairness ==
    /\ Fairness
    /\ SF_liveVars(fault = "none" /\ ReleaseWindow)
    /\ WF_liveVars(fault = "none" /\ DrawStep)

LiveFairSpec == LiveSpec /\ LiveFairness

-----------------------------------------------------------------------------
(* Properties. *)

\* The type invariant.
LiveTypeOK ==
    /\ TypeOK
    /\ window \in BOOLEAN /\ mutex \in BOOLEAN /\ gone \in BOOLEAN
    /\ refs \in 0..1 /\ draw \in {"idle", "lock", "copy"}

\* The window the render thread sets up, locks, fills and posts stays acquired
\* meanwhile, whatever the activity does (app_liveplayer.cpp:145, 62, 73).
WindowStaysWhileDrawn == draw # "idle" => window /\ refs = 1

\* Three places release the window and one acquires it: what is acquired is
\* released exactly once, and nothing is left when the activity is gone.
WindowReleasedOnce ==
    refs = Held /\ (ui = "released" => refs = 0)

\* The window and its mutex between the activity and the render thread.
WindowInv == LiveTypeOK /\ WindowStaysWhileDrawn /\ WindowReleasedOnce
=============================================================================
