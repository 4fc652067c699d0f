------------------------------- MODULE Paths -------------------------------
(***************************************************************************)
(* getAbsolutePath of util.c, by which main names the configuration file:  *)
(* the path is made out of the current directory and a relative name,      *)
(* whose leading "../" are taken off one by one.  Paths are sequences of   *)
(* characters.                                                             *)
(***************************************************************************)
EXTENDS Integers, Sequences, SequencesExt

CONSTANTS
    Cwd,            \* current directories
    PathChar,       \* characters of names
    MaxName         \* bound: the longest name

VARIABLES
    name, cwd,      \* what getAbsolutePath was called with and in
    path            \* its locals

pathVars == <<name, cwd, path>>

SLASH == "/"  DOT == "."

\* Directories with a slash at the end, as getcwd() names them: from the root through names.
IsDirectory(s) ==
    /\ s \in Seq(ToSet(s)) /\ s # << >> /\ s[1] = SLASH /\ s[Len(s)] = SLASH
    /\ \A i, j \in DOMAIN s : i < j /\ s[i] = SLASH /\ s[j] = SLASH
          => SubSeq(s, i + 1, j - 1) \notin {<< >>, <<DOT>>, <<DOT, DOT>>}

ASSUME PathAssumption ==
    /\ MaxName \in Nat
    /\ \A c \in Cwd \ {<<SLASH>>} :
          c \in Seq(ToSet(c)) /\ c # << >> /\ IsDirectory(Append(c, SLASH))

IsBlank(c) == c = " "

\* sdstrim with blanks.
Trimmed(s) ==
    LET keep == {i \in DOMAIN s : ~ IsBlank(s[i])}
    IN  IF keep = {} THEN << >> ELSE SubSeq(s, Min(keep), Max(keep))

PathInit ==
    /\ name \in UNION {[1..n -> PathChar] : n \in 1..MaxName}
    /\ cwd \in Cwd
    /\ path = [state |-> "start", rel |-> << >>, abs |-> << >>]

StartPath ==
    /\ path.state = "start"
    /\ LET rel == Trimmed(name)
       IN  path' = IF rel # << >> /\ rel[1] = SLASH
                   THEN [state |-> "done", rel |-> rel, abs |-> rel]
                   ELSE [state |-> "normalize", rel |-> rel,
                         abs |-> IF cwd # << >> /\ Last(cwd) # SLASH THEN Append(cwd, SLASH) ELSE cwd]
    /\ UNCHANGED <<name, cwd>>

LeadsUp(rel) == Len(rel) >= 3 /\ SubSeq(rel, 1, 3) = <<DOT, DOT, SLASH>>

\* The last element goes; the slash in front of it stays, and so does the root.
Parent(abs) ==
    LET slash == Max({i \in 1..(Len(abs) - 1) : abs[i] = SLASH}) IN SubSeq(abs, 1, slash)

StripUp ==
    /\ path.state = "normalize" /\ LeadsUp(path.rel)
    /\ path' = [path EXCEPT !.rel = SubSeq(@, 4, Len(@)),
                            !.abs = IF Len(@) > 1 THEN Parent(@) ELSE @]
    /\ UNCHANGED <<name, cwd>>

Glue ==
    /\ path.state = "normalize" /\ ~ LeadsUp(path.rel)
    /\ path' = [path EXCEPT !.state = "done", !.abs = @ \o path.rel]
    /\ UNCHANGED <<name, cwd>>

PathNext == StartPath \/ StripUp \/ Glue

PathSpec == PathInit /\ [][PathNext]_pathVars

-----------------------------------------------------------------------------
(***************************************************************************)
(* What a path means: the directories it goes through from the root        *)
(***************************************************************************)
Enter(at, e) ==
    CASE e \in {<< >>, <<DOT>>} -> at
      [] e = <<DOT, DOT>> -> IF at = << >> THEN at ELSE Front(at)
      [] OTHER -> Append(at, e)

\* One character: it ends the element that was begun, or belongs to it.
Reads(w, c) ==
    IF c = SLASH THEN [at |-> Enter(w.at, w.element), element |-> << >>]
    ELSE [at |-> w.at, element |-> Append(w.element, c)]

Walked(start, s) ==
    LET w[n \in 0..Len(s)] == IF n = 0 THEN start ELSE Reads(w[n - 1], s[n])
    IN  w[Len(s)]

Resolve(from, s) ==
    LET start == IF s # << >> /\ s[1] = SLASH THEN << >> ELSE from
        w == Walked([at |-> start, element |-> << >>], s)
    IN  Enter(w.at, w.element)

\* The absolute path names the file that the name meant where it was given.
SameFile ==
    path.state = "done" =>
        /\ path.abs[1] = SLASH
        /\ Resolve(<< >>, path.abs) = Resolve(Resolve(<< >>, cwd), Trimmed(name))
=============================================================================
