------------------------------- MODULE Target -------------------------------
(***************************************************************************)
(* The machine at the other end of the serial line, as the daemon relies   *)
(* on it: an agetty that prompts, the login shell it starts, and the bytes *)
(* it prints.  None of it is code of the repository; CONTEXT.md ("Session  *)
(* logout", "Serial kick") and relay.py say what the daemon expects of it. *)
(***************************************************************************)
EXTENDS Sids

VARIABLES
    shell,          \* the client whose login session is open, or None: login prompt
    output          \* "none", "printing" (the target has something to print),
                    \* "buffered" (printed, and not yet read by the daemon)

targetVars == <<shell, output>>

TargetInit == shell = None /\ output = "none"

\* Whatever it receives, the target answers it: an echo, a prompt, a banner.
Answers == output' = IF output = "buffered" THEN "buffered" ELSE "printing"

\* Keystrokes of client c.  At the login prompt they may complete a login.
Keys(c) ==
    /\ shell' \in IF shell = None THEN {None, c} ELSE {shell}
    /\ Answers

\* "\n": a login prompt again, or the prompt of the shell that is open.
Newline == Answers /\ UNCHANGED shell

\* "\x04": the shell ends and getty starts over with the welcome banner.
EndOfSession == Answers /\ shell' = None
=============================================================================
