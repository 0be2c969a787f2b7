------------------------------ MODULE IgLogger ------------------------------
(***************************************************************************)
(* The messages of icglue and its exit code (lib/logger.c, the commands    *)
(* logger, log and log_stat of lib/ig_tcl.c, and bin/icglue).              *)
(*                                                                         *)
(* Each message has a level and an id.  A threshold, one for all and some  *)
(* for single ids, decides whether it is printed or suppressed; options    *)
(* and the construction script set thresholds.  What was printed decides   *)
(* the exit code in the end, which is all that a Makefile sees of a run.   *)
(***************************************************************************)
EXTENDS Integers, Functions

CONSTANTS LogId,        \* ids of messages, among them "Gen" and "Tcl"
          NoLevel,      \* no entry in log_property
          MaxMessages,  \* bound: messages issued
          MaxSettings   \* bound: thresholds set

ASSUME LogIdAssumption == {"Gen", "Tcl"} \subseteq LogId

(* The levels by their labels; that of X is "INTERNAL ERROR". *)
D == 0
I == 1
W == 2
E == 3
X == 4
Level == D .. X

VARIABLES default_log_level, log_property,
          log_count_print, log_count_suppressed,
          c_loglevel,   \* the level of the options -q, -v and -d
          stage,        \* "options", "script", "output", "exited"
          exitcode,
          issued,       \* the levels of the messages issued so far
          highest,      \* the highest threshold there has been
          settings      \* the number of thresholds set so far
thresholds == <<default_log_level, log_property, highest, settings>>
counts == <<log_count_print, log_count_suppressed, issued>>
logVars == <<default_log_level, log_property, highest, settings,
             log_count_print, log_count_suppressed, issued, c_loglevel, stage, exitcode>>

(* main sets the threshold of Gen and the one for all from the options. *)
LoggerInit ==
  /\ c_loglevel \in D .. E
  /\ default_log_level = c_loglevel
  /\ log_property = [id \in LogId |-> IF id = "Gen" THEN I ELSE NoLevel]
  /\ log_count_print = [l \in Level |-> 0]
  /\ log_count_suppressed = [l \in Level |-> 0]
  /\ stage = "options" /\ exitcode = 0
  /\ issued = {} /\ highest = c_loglevel /\ settings = 0

-----------------------------------------------------------------------------
log_suppress(level, id) ==
  level < IF log_property[id] = NoLevel THEN default_log_level ELSE log_property[id]

Count(counter, level) == [counter EXCEPT ![level] = @ + 1]
Messages == FoldFunction(+, 0, log_count_print) + FoldFunction(+, 0, log_count_suppressed)

log_base(level, id) ==
  /\ Messages < MaxMessages
  /\ \/ /\ log_suppress(level, id)
        /\ log_count_suppressed' = Count(log_count_suppressed, level)
        /\ UNCHANGED log_count_print
     \/ /\ ~ log_suppress(level, id)
        /\ log_count_print' = Count(log_count_print, level)
        /\ UNCHANGED log_count_suppressed
  /\ issued' = issued \cup {level}
  /\ UNCHANGED thresholds

Threshold(level) ==
  /\ settings < MaxSettings
  /\ settings' = settings + 1
  /\ highest' = IF level > highest THEN level ELSE highest
  /\ UNCHANGED counts

set_default_log_level(level) ==
  /\ Threshold(level)
  /\ default_log_level' = level
  /\ UNCHANGED log_property

log_particular_level(id, level) ==
  /\ Threshold(level)
  /\ log_property' = [log_property EXCEPT ![id] = level]
  /\ UNCHANGED default_log_level

-----------------------------------------------------------------------------
Goes(from, to) == stage = from /\ stage' = to /\ UNCHANGED exitcode
Exit(code) == stage # "exited" /\ stage' = "exited" /\ exitcode' = code

(* The option -l takes the levels D to E; another one is an error message. *)
LogOption(level, id) ==
  /\ Goes("options", "options")
  /\ IF level \in D .. E THEN log_particular_level(id, level) ELSE log_base(E, "Tcl")

LoadTemplate      == Goes("options", "script") /\ UNCHANGED <<thresholds, counts>>
LoadTemplateFails == stage = "options" /\ log_base(E, "Tcl") /\ Exit(1)

(* The command log of scripts, checks and templates, and log_warn and      *)
(* log_error of the library.  With -abort it is an error as well, which    *)
(* may be caught.                                                          *)
Log(level, id) ==
  /\ stage \in {"script", "output"} /\ UNCHANGED <<stage, exitcode>>
  /\ log_base(level, id)

(* log_errorint *)
InternalError(id) ==
  /\ stage \in {"script", "output"}
  /\ log_base(X, id)
  /\ Exit(1)

(* The command logger takes all the levels. *)
Logger(level) ==
  /\ Goes("script", "script")
  /\ \/ set_default_log_level(level)
     \/ \E id \in LogId : log_particular_level(id, level)

(* run_script catches an error of the script. *)
ScriptFails == stage = "script" /\ log_base(E, "Tcl") /\ Exit(1)

ScriptEnds  == Goes("script", "output") /\ UNCHANGED <<thresholds, counts>>

(* An error nobody catches while output is generated ends tclsh. *)
OutputFails == stage = "output" /\ Exit(1) /\ UNCHANGED <<thresholds, counts>>

(* Fault: the first level with messages decides. *)
ExitCode_First(seen) == IF W \in seen THEN 2 ELSE IF E \in seen THEN 1 ELSE 0

(* The loop of generate over the levels with messages. *)
ExitCode(seen) == IF E \in seen THEN 1 ELSE IF W \in seen THEN 2 ELSE 0

OutputEnds ==
  /\ stage = "output"
  /\ Exit(ExitCode({l \in c_loglevel .. E : log_count_print[l] > 0}))
  /\ UNCHANGED <<thresholds, counts>>

LoggerNext ==
  /\ \/ \E level \in Level, id \in LogId : LogOption(level, id)
     \/ LoadTemplate \/ LoadTemplateFails
     \/ \E level \in D .. E, id \in LogId : Log(level, id)
     \/ \E id \in LogId : InternalError(id)
     \/ \E level \in Level : Logger(level)
     \/ ScriptFails \/ ScriptEnds \/ OutputFails \/ OutputEnds
  /\ UNCHANGED c_loglevel

LoggerSpec == LoggerInit /\ [][LoggerNext]_logVars

-----------------------------------------------------------------------------
(* What the exit code tells.  A run with an error does not look like one   *)
(* without, unless a script asked for internal errors only; 2 means        *)
(* warnings and no error, and 0 neither, unless a threshold above W was    *)
(* asked for (-q, -l E,... or the command logger).                         *)
ExitCodeTells ==
  stage = "exited" =>
    /\ E \in issued /\ highest <= E => exitcode = 1
    /\ X \in issued => exitcode = 1
    /\ exitcode = 2 => W \in issued /\ (E \in issued => highest > E)
    /\ exitcode = 0 /\ W \in issued => highest > W
=============================================================================
