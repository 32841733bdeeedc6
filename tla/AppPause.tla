---------------------------- MODULE AppPause ----------------------------
(***************************************************************************)
(* The pause of the iOS application: the notifications of AppDelegate.m    *)
(* set and clear dospad_pause_flag, and the emulator sleeps in GFX_Events  *)
(* while it is set (main.m, sdlmain.cpp). Views that come and go pause and *)
(* resume it too; they are left out.                                       *)
(*                                                                         *)
(* DosEmuThread makes a thread, but what that thread does is to dispatch   *)
(* SDL_main to the main queue: the emulator never returns from there, and  *)
(* the application is told of anything only when SDL_PollEvent runs the    *)
(* run loop of the main thread (SDL_uikitevents.m).                        *)
(***************************************************************************)
EXTENDS Naturals, Sequences

CONSTANT Pending  \* bound on the notifications that wait

VARIABLES
  system,             \* what iOS has the application in
  notices,            \* the notifications that wait for the run loop
  dospad_pause_flag,
  pc                  \* where the main thread is

vars == <<system, notices, dospad_pause_flag, pc>>

Init ==
  /\ system = "active" /\ notices = <<>>
  /\ dospad_pause_flag = FALSE
  /\ pc = "Normal_Loop"

-----------------------------------------------------------------------------
(* iOS: the user is interrupted, leaves for the home screen, comes back.   *)

Changes(from, to, notice) ==
  /\ system = from /\ Len(notices) < Pending
  /\ system' = to
  /\ notices' = Append(notices, notice)
  /\ UNCHANGED <<dospad_pause_flag, pc>>

User ==
  \/ Changes("active", "inactive", "applicationWillResignActive")
  \/ Changes("inactive", "active", "applicationDidBecomeActive")
  \/ Changes("inactive", "background", "applicationDidEnterBackground")
  \/ Changes("background", "inactive", "applicationWillEnterForeground")

-----------------------------------------------------------------------------
(* The main thread.                                                        *)

\* The end of a tick.
CallsGFX_Events ==
  /\ pc = "Normal_Loop"
  /\ pc' = "dospad_should_pause"
  /\ UNCHANGED <<system, notices, dospad_pause_flag>>

\* Half a second later it looks again.
LeavesPause ==
  /\ pc = "dospad_should_pause" /\ ~dospad_pause_flag
  /\ pc' = "UIKit_PumpEvents"
  /\ UNCHANGED <<system, notices, dospad_pause_flag>>

\* The emulator's view is the root of the navigation controller: it is always
\* on the stack.
Handles(notice) ==
  dospad_pause_flag' =
    CASE notice = "applicationWillResignActive" -> TRUE
      [] notice \in {"applicationWillEnterForeground", "applicationDidBecomeActive"} -> FALSE
      [] OTHER -> dospad_pause_flag

\* CFRunLoopRunInMode, as long as it handles something.
RunsRunLoop ==
  /\ pc = "UIKit_PumpEvents"
  /\ IF notices = <<>> THEN pc' = "Normal_Loop" /\ UNCHANGED <<notices, dospad_pause_flag>>
     ELSE Handles(Head(notices)) /\ notices' = Tail(notices) /\ UNCHANGED pc
  /\ UNCHANGED system

MainThread == CallsGFX_Events \/ LeavesPause \/ RunsRunLoop

Next == User \/ MainThread

\* iOS schedules the main thread.
Spec == Init /\ [][Next]_vars /\ WF_vars(MainThread)

-----------------------------------------------------------------------------
(* Properties.                                                             *)

\* An application that stays active runs the emulator again: the comment at
\* AppDelegate.m:88 says that the notification resumes it.
ActiveResumes == []<>(system = "active" => pc = "Normal_Loop")

=============================================================================
