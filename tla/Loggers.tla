------------------------------ MODULE Loggers ------------------------------
(***************************************************************************)
(* The loggers that the program uses: Epoll, Raft and Node each take one   *)
(* from the process-wide registry (spdlog::stdout_color_mt() in epoll.cc,  *)
(* raft.cc, node.cc) and any thread of theirs logs through it.  Each       *)
(* logger has a colour sink with a mutex of its own; all write to the one  *)
(* standard output, line by line or, on a terminal, in four pieces.        *)
(*                                                                         *)
(* A logger lives as long as its object does, in the registry or not.      *)
(* Every level the program uses is at least the loggers' own, so           *)
(* should_log() always holds.                                              *)
(***************************************************************************)
EXTENDS FormatReference, Pattern

CONSTANTS
  User,      \* the threads
  Name,      \* "epoll_console", "raft_console", "node_console"
  Nobody

ASSUME LoggerAssumption == Nobody \notin User /\ Name \subseteq STRING

VARIABLES
  loggers,   \* the names of the loggers made so far
  registered,  \* those the registry knows
  holder,    \* holder[l]: who has the mutex of the sink of logger l
  user,      \* user[u]: the call to log() that u is in
  console,   \* what has been written to standard output
  \* Never changed:
  colored,   \* should_do_colors_
  pattern,   \* the parts of the loggers' pattern
  menu,      \* the calls that are made: the parts of a format, and arguments
  \* What is still to come:
  calls,
  creations

lvars == <<loggers, registered, holder, user, console, colored, pattern, menu, calls, creations>>
fixed == <<colored, pattern, menu>>

NoCall == [parts |-> <<>>, args |-> <<>>]
Resting == [at |-> "idle", log |-> 1, call |-> NoCall, raw |-> Thrown, serial |-> 0, piece |-> 0]

UserAt(u, where) == user[u].at = where

\* A part of a pattern: a flag, or characters that begin none.
PatternPart ==
  [shows : STRING \ {"chars"}, chars : {<<>>}]
    \cup [shows : {"chars"}, chars : Seq(STRING \ {"%"})]

PartSpelled(part) == IF part.shows = "chars" THEN part.chars ELSE <<"%", part.shows>>
PatternSpelled(parts) == FlattenSeq([i \in DOMAIN parts |-> PartSpelled(parts[i])])

\* The console logger of one Raft object, say, and the threads that use it.
LoggersInit(users, name) ==
  /\ user = [u \in users |-> Resting]
  /\ loggers = <<name>> /\ registered = {1}
  /\ holder = <<Nobody>> /\ console = <<>>
  /\ calls \in Nat /\ creations \in Nat
  /\ pattern \in Seq(PatternPart) /\ colored \in BOOLEAN

Message(u) == [name |-> loggers[user[u].log], level |-> "warn", text |-> user[u].raw.text]

\* The fwrite() calls for one line.
Pieces == IF colored THEN <<"color", "text", "reset", "clear_line">> ELSE <<"text">>
-----------------------------------------------------------------------------
(* The registry *)

\* create(); a name that is registered already makes it throw.
Create(u, name) ==
  /\ UserAt(u, "idle") /\ creations > 0
  /\ \A l \in registered : loggers[l] # name
  /\ loggers' = Append(loggers, name)
  /\ registered' = registered \cup {Len(loggers')}
  /\ holder' = Append(holder, Nobody)
  /\ creations' = creations - 1
  /\ UNCHANGED <<user, console, calls, fixed>>

\* The destructors of Epoll and Raft.
DropAll(u) ==
  /\ UserAt(u, "idle") /\ registered # {}
  /\ registered' = {}
  /\ UNCHANGED <<loggers, holder, user, console, calls, creations, fixed>>
-----------------------------------------------------------------------------
(* logger::log() *)

\* The text is made; what that throws goes to the error handler.
LogCall(u, l, c) ==
  /\ UserAt(u, "idle") /\ calls > 0
  /\ LET raw == Formatted(AllSpelled(c.parts), c.args)
     IN  user' = [user EXCEPT ![u] =
           [at |-> IF raw.thrown THEN "error" ELSE "lock", log |-> l, call |-> c, raw |-> raw,
            serial |-> calls, piece |-> 0]]
  /\ calls' = calls - 1
  /\ UNCHANGED <<loggers, registered, holder, console, creations, fixed>>

\* _default_err_handler() reports it on the standard error output, once a minute.
ReportError(u) ==
  /\ UserAt(u, "error")
  /\ user' = [user EXCEPT ![u] = Resting]
  /\ UNCHANGED <<loggers, registered, holder, console, calls, creations, fixed>>

\* Mutation: the sink is not locked.
SinkLock_Shared(u) ==
  /\ UserAt(u, "lock")
  /\ user' = [user EXCEPT ![u].at = "write"]
  /\ UNCHANGED <<loggers, registered, holder, console, calls, creations, fixed>>

\* base_sink::log()
SinkLock(u) ==
  /\ UserAt(u, "lock")
  /\ holder[user[u].log] = Nobody
  /\ holder' = [holder EXCEPT ![user[u].log] = u]
  /\ user' = [user EXCEPT ![u].at = "write"]
  /\ UNCHANGED <<loggers, registered, console, calls, creations, fixed>>

\* _sink_it(): one fwrite(); stdio makes each of them atomic.
SinkWrite(u) ==
  /\ UserAt(u, "write")
  /\ LET k == user[u].piece + 1
         line == FormatLine(CompilePattern(PatternSpelled(pattern)), Message(u))
     IN  /\ console' = Append(console,
              [by |-> u, log |-> user[u].log, serial |-> user[u].serial, piece |-> Pieces[k],
               chars |-> IF Pieces[k] = "text" THEN line ELSE <<>>])
         /\ user' = [user EXCEPT ![u].piece = k,
                                 ![u].at = IF k = Len(Pieces) THEN "unlock" ELSE "write"]
  /\ UNCHANGED <<loggers, registered, holder, calls, creations, fixed>>

SinkUnlock(u) ==
  /\ UserAt(u, "unlock")
  /\ holder' = [holder EXCEPT ![user[u].log] = Nobody]
  /\ user' = [user EXCEPT ![u] = Resting]
  /\ UNCHANGED <<loggers, registered, console, calls, creations, fixed>>

LoggersNext ==
  \E u \in DOMAIN user :
    \/ \E name \in Name : Create(u, name)
    \/ DropAll(u)
    \/ \E l \in DOMAIN loggers, c \in menu : LogCall(u, l, c)
    \/ ReportError(u)
    \/ SinkLock(u) \/ SinkWrite(u) \/ SinkUnlock(u)

LoggersSpec ==
  (\E users \in SUBSET User, name \in Name : LoggersInit(users, name)) /\ [][LoggersNext]_lvars
-----------------------------------------------------------------------------
\* Each call makes the text that its format and arguments mean, and throws only
\* when they mean none (BasicFormatter::format() and what it calls).
FormattedAsSpecified ==
  \A u \in DOMAIN user :
    ~UserAt(u, "idle") => user[u].raw = Meaning(user[u].call.parts, user[u].call.args)

WrittenBy(l) ==
  FlattenSeq([i \in DOMAIN console |-> If(console[i].log = l, <<console[i]>>)])

OtherName == [h |-> "b", x |-> "D", X |-> "T"]

\* What a part shows, its characters left aside, and the parts one by one.
PartMeant(part, msg) ==
  CASE part.shows \in DOMAIN OtherName -> <<OtherName[part.shows]>>
    [] part.shows \in (Flags \cup {"chars"}) \ DOMAIN OtherName -> Piece(part, msg)
    [] OTHER -> <<"%", part.shows>>

LineMeant(msg) ==
  FlattenSeq([i \in DOMAIN pattern |-> PartMeant(pattern[i], msg)]) \o EndOfLine

\* When a thread is done with its line, the last that its logger has written is
\* that line, with the text that was asked for and in the layout of the pattern,
\* from its colour to its end, and nothing of another thread's line inside
\* (base_sink::log(), ansicolor_sink::_sink_it(), pattern_formatter).  Lines of
\* different loggers may run into each other.
LinesAreWhole ==
  \A u \in DOMAIN user : UserAt(u, "unlock") =>
    LET written == WrittenBy(user[u].log)
        first == Len(written) - Len(Pieces)
        meant == LineMeant([name |-> loggers[user[u].log], level |-> "warn",
                            text |-> Meaning(user[u].call.parts, user[u].call.args).text])
    IN  /\ first >= 0
        /\ SubSeq(written, first + 1, Len(written)) =
             [k \in DOMAIN Pieces |->
               [by |-> u, log |-> user[u].log, serial |-> user[u].serial, piece |-> Pieces[k],
                chars |-> IF Pieces[k] = "text" THEN meant ELSE <<>>]]
=============================================================================
