------------------------------- MODULE Options ------------------------------
(***************************************************************************)
(* The command line (src/src/options.c) and what it makes of the log       *)
(* (src/src/log.c).  argp hands parse_opt one key after the other: the     *)
(* options in their order, then every other argument, then the end.        *)
(***************************************************************************)
EXTENDS Integers

LOG_INFO    == 0
LOG_TRACE   == 1
LOG_WARNING == 2
LOG_ERROR   == 3
\* -1 stored in an unsigned enumeration: above every level.
LOG_SILENT  == 4

LogLevels == LOG_INFO..LOG_SILENT

\* GBEMU_NB_ARGS.
NbArgs == 1

Keys == {"trace", "exit-infinite-loop", "blargg", "silent", "level TRACE",
         "level WARNING", "level ERROR", "level ?", "CARTRIDGE", "end"}

VARIABLES options,   \* get_options()
          keys,      \* the keys argp has still to hand over
          arg_num    \* arguments that are not options, so far

optionVars == <<options, keys, arg_num>>

OptionsRecord == [trace : BOOLEAN, log_level : LogLevels,
                  exit_infinite_loop : BOOLEAN, blargg : BOOLEAN]

\* The initialiser of get_options().
OptionsInit ==
  /\ options = [trace |-> FALSE, log_level |-> LOG_INFO,
                exit_infinite_loop |-> FALSE, blargg |-> FALSE]
  /\ arg_num = 0

\* argp_usage: the process ends.  The test for too many arguments lets one
\* more pass.
Usage(key) ==
  \/ key = "CARTRIDGE" /\ arg_num > NbArgs
  \/ key = "end" /\ arg_num < NbArgs

\* The options after a key.  args[1] lies past the array: the lower half of
\* the pointer is stored over the trace flag and, if pointers have 64 bits,
\* the upper half over the log level, which is then above every level.
Parsed(key) ==
  CASE key = "trace"              -> {[options EXCEPT !.trace = TRUE]}
    [] key = "exit-infinite-loop" -> {[options EXCEPT !.exit_infinite_loop = TRUE]}
    [] key = "blargg"             -> {[options EXCEPT !.blargg = TRUE]}
    [] key = "silent"             -> {[options EXCEPT !.log_level = LOG_SILENT]}
    [] key = "level TRACE"        -> {[options EXCEPT !.log_level = LOG_TRACE]}
    [] key = "level WARNING"      -> {[options EXCEPT !.log_level = LOG_WARNING]}
    [] key = "level ERROR"        -> {[options EXCEPT !.log_level = LOG_ERROR]}
    [] key = "level ?"            -> {[options EXCEPT !.log_level = LOG_INFO]}
    [] key = "CARTRIDGE" /\ arg_num = NbArgs ->
         {[options EXCEPT !.trace = trace, !.log_level = level] :
            trace \in BOOLEAN, level \in {options.log_level, LOG_SILENT}}
    [] OTHER -> {options}

\* parse_opt, for a key that is not refused.
ParseOpt(key) ==
  /\ ~Usage(key)
  /\ options' \in Parsed(key)
  /\ arg_num' = IF key = "CARTRIDGE" THEN arg_num + 1 ELSE arg_num

\* Variant of Logged: a level does not let its own messages through.
LoggedAbove(level) ==
  IF level = LOG_TRACE THEN options.trace ELSE level > options.log_level

\* log_print lets a message through.
Logged(level) ==
  IF level = LOG_TRACE THEN options.trace ELSE level >= options.log_level
=============================================================================
