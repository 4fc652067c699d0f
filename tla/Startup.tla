------------------------------ MODULE Startup ------------------------------
(***************************************************************************)
(* main() up to the event loop: the configuration file is found (module    *)
(* Paths), read and obeyed line by line, the server listens, loads its     *)
(* data and writes its pid file; and server_log, which uses what the file  *)
(* asked for.  A line is <<directive, argument>>; numbers are what atoi    *)
(* makes of the word.  What the data file does is module Persistence.      *)
(***************************************************************************)
EXTENDS Paths

CONSTANTS
    Line,               \* lines of configuration files
    MaxLines,           \* bound: the length of the file
    ConfigFile,         \* where it is, as the elements of a path
    Directory,          \* the directories there are, likewise
    Writable,           \* those the server may create files in
    CONFIG_DEFAULT_SERVER_PORT, CONFIG_DEFAULT_PID_FILE,
    NONE

ASSUME StartupAssumption ==
    /\ Writable \subseteq Directory
    /\ \A c \in Cwd : Resolve(<< >>, c) \in Directory
    /\ \A l \in Line : l[2] # NONE

VARIABLES
    phase,              \* where main() is
    conf,               \* history: the lines obeyed so far
    server,             \* the configuration in struct tadpoleServer
    tested,             \* history: files that were opened to test them
    written             \* history: where messages and the pid have gone

startupVars == <<pathVars, phase, conf, server, tested, written>>

LL_DEBUG == 0  LL_VERBOSE == 1  LL_NOTICE == 2  LL_WARNING == 3
Verbosity == [debug |-> LL_DEBUG, verbose |-> LL_VERBOSE, notice |-> LL_NOTICE, warning |-> LL_WARNING]

\* The file system: what a name means in the current directory.
Place(file) == Resolve(Resolve(<< >>, cwd), file)
Creatable(place) == place # << >> /\ Front(place) \in Writable

init_config ==
    [port |-> CONFIG_DEFAULT_SERVER_PORT, verbosity |-> LL_NOTICE, log_file |-> NONE,
     daemonize |-> FALSE, pidfile |-> NONE, fl |-> NONE, db_filename |-> NONE]

StartupInit ==
    /\ PathInit
    /\ phase = "naming" /\ conf = << >> /\ server = init_config
    /\ tested = {} /\ written = {}

GetAbsolutePath ==
    /\ phase = "naming" /\ PathNext
    /\ UNCHANGED <<phase, conf, server, tested, written>>

\* The name is forgotten where the file was opened: nothing uses it again.
load_config ==
    /\ phase = "naming" /\ path.state = "done"
    /\ \/ /\ Resolve(<< >>, path.abs) = ConfigFile
          /\ phase' = "config" /\ name' = << >> /\ path' = [state |-> "used", rel |-> << >>, abs |-> << >>]
       \/ /\ Resolve(<< >>, path.abs) # ConfigFile
          /\ phase' = "exited" /\ UNCHANGED <<name, path>>
    /\ UNCHANGED <<cwd, conf, server, tested, written>>

-----------------------------------------------------------------------------
(***************************************************************************)
(* loadServerConfigFromString, one line at a time                          *)
(***************************************************************************)
pathIsBaseName(file) == \A i \in DOMAIN file : file[i] \notin {SLASH, "\\"}

Set(field, value) ==
    /\ server' = [server EXCEPT ![field] = value]
    /\ UNCHANGED <<cwd, tested, phase>>

loaderr == phase' = "exited" /\ UNCHANGED <<cwd, server, tested>>

Port == 0..65535

SetIf(ok, field, value) == IF ok THEN Set(field, value) ELSE loaderr

ChangeDir(dir) ==
    IF Place(dir) \in Directory
    THEN /\ cwd' = <<SLASH>> \o FoldLeft(LAMBDA s, e : s \o (IF s = << >> THEN e ELSE <<SLASH>> \o e), << >>, Place(dir))
         /\ UNCHANGED <<server, tested, phase>>
    ELSE loaderr

\* Mutant: the server goes on when the file cannot be opened.
LogfileUntested(file) ==
    /\ server' = [server EXCEPT !.log_file = file]
    /\ tested' = IF file # << >> /\ Creatable(Place(file)) THEN tested \cup {Place(file)} ELSE tested
    /\ UNCHANGED <<cwd, phase>>

Logfile(file) ==
    /\ server' = [server EXCEPT !.log_file = file]
    /\ IF file = << >>
       THEN UNCHANGED <<tested, phase>>
       ELSE IF Creatable(Place(file))
            THEN tested' = tested \cup {Place(file)} /\ UNCHANGED phase
            ELSE phase' = "exited" /\ UNCHANGED tested
    /\ UNCHANGED cwd

Obey(directive, value) ==
    \/ directive = "#" /\ UNCHANGED <<cwd, server, tested, phase>>
    \/ directive = "port" /\ SetIf(value \in Port, "port", value)
    \/ /\ directive = "loglevel"
       /\ IF value \in DOMAIN Verbosity THEN Set("verbosity", Verbosity[value]) ELSE loaderr
    \/ directive = "dir" /\ ChangeDir(value)
    \/ directive = "logfile" /\ Logfile(value)
    \/ directive = "daemonize" /\ SetIf(value \in {"yes", "no"}, "daemonize", value = "yes")
    \/ directive = "pidfile" /\ Set("pidfile", value)
    \/ directive = "fixed-length" /\ Set("fl", value)
    \/ directive = "dbfilename" /\ SetIf(pathIsBaseName(value), "db_filename", value)
    \/ directive \in {"bad directive", "unbalanced quotes"} /\ loaderr

loadServerConfigFromString ==
    /\ phase = "config" /\ Len(conf) < MaxLines
    /\ \E l \in Line : conf' = Append(conf, l) /\ Obey(l[1], l[2])
    /\ UNCHANGED <<name, path, written>>

\* The last line was read; daemonize() goes on in the child.
ConfigRead ==
    /\ phase = "config" /\ phase' = "starting"
    /\ UNCHANGED <<pathVars, conf, server, tested, written>>

-----------------------------------------------------------------------------
(***************************************************************************)
(* server_log, and the rest of main()                                      *)
(***************************************************************************)
\* daemonize() turned the standard output away.
Stdout == IF server.daemonize THEN <<"null", << >>>> ELSE <<"stdout", << >>>>

LogPlace ==
    CASE server.log_file = << >> -> Stdout
      [] server.log_file # << >> /\ Creatable(Place(server.log_file)) -> <<"file", Place(server.log_file)>>
      [] OTHER -> <<"lost", << >>>>

\* The process goes on in phase `next`, unless it reads through a null log_file.
server_log(level, next) ==
    IF level < server.verbosity THEN phase' = next /\ UNCHANGED written
    ELSE IF server.log_file = NONE THEN phase' = "crashed" /\ UNCHANGED written
    ELSE phase' = next /\ written' = written \cup {LogPlace}

listenToPort ==
    /\ phase = "starting"
    /\ \/ phase' = "loading" /\ UNCHANGED written
       \/ server_log(LL_WARNING, "exited")
    /\ UNCHANGED <<pathVars, conf, server, tested>>

BadDataFile ==
    /\ phase = "loading" /\ server_log(LL_WARNING, "exited")
    /\ UNCHANGED <<pathVars, conf, server, tested>>

createPidFile ==
    LET file == IF server.pidfile = NONE THEN CONFIG_DEFAULT_PID_FILE ELSE server.pidfile
    IN  /\ server' = [server EXCEPT !.pidfile = file]
        /\ written' = IF Creatable(Place(file)) THEN written \cup {<<"pid", Place(file)>>} ELSE written

Serve ==
    /\ phase = "loading" /\ phase' = "serving"
    /\ IF server.daemonize \/ server.pidfile # NONE THEN createPidFile ELSE UNCHANGED <<server, written>>
    /\ UNCHANGED <<pathVars, conf, tested>>

Message ==
    /\ phase = "serving"
    /\ \E level \in {LL_VERBOSE, LL_WARNING} : server_log(level, "serving")
    /\ UNCHANGED <<pathVars, conf, server, tested>>

StartupNext ==
    \/ GetAbsolutePath \/ load_config \/ loadServerConfigFromString \/ ConfigRead
    \/ listenToPort \/ BadDataFile \/ Serve \/ Message

StartupSpec == StartupInit /\ [][StartupNext]_startupVars

-----------------------------------------------------------------------------
(***************************************************************************)
(* What the file asks for                                                  *)
(***************************************************************************)
LinesOf(directive) == {i \in DOMAIN conf : conf[i][1] = directive}
Asked(directive, default) ==
    IF LinesOf(directive) = {} THEN default ELSE conf[Max(LinesOf(directive))][2]

AsConfigured ==
    /\ server.port = Asked("port", CONFIG_DEFAULT_SERVER_PORT)
    /\ server.verbosity = Verbosity[Asked("loglevel", "notice")]
    /\ server.log_file = Asked("logfile", NONE)
    /\ server.daemonize <=> Asked("daemonize", "no") = "yes"
    /\ server.fl = Asked("fixed-length", NONE)
    /\ server.db_filename = Asked("dbfilename", NONE)
    /\ server.pidfile # NONE => server.pidfile = Asked("pidfile", CONFIG_DEFAULT_PID_FILE)

\* A directory that is entered behind the last logfile line takes the log along.
LogMoves == \E i \in LinesOf("logfile"), j \in LinesOf("dir") : i = Max(LinesOf("logfile")) /\ j > i

LogsWhereTested ==
    \A w \in written :
        /\ w[1] = "file" => w[2] \in tested
        /\ w[1] # "lost"

\* A server that starts has opened the file its argument named, goes by the last
\* line of each directive, and loses no message: what is logged to is a file that
\* it has tested (the comment at config.c:75), unless a `dir` line comes later.
\* The first message of a server without a logfile line ends it (log.c:21).
StartedAsAsked ==
    /\ SameFile
    /\ phase \in {"starting", "loading", "serving"} => AsConfigured
    /\ LogMoves \/ LogsWhereTested
    /\ phase = "crashed" => LinesOf("logfile") = {}
=============================================================================
