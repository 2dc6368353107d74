--------------------------- MODULE ImmutableFiles ---------------------------
(***************************************************************************)
(* A directory of immutable files, each written to a private temporary,    *)
(* sealed, synchronized, linked under its public name, and stripped of its *)
(* temporary name: persist_immutable of src/run_evidence_store.cpp and     *)
(* retain_immutable of cli/run_command.cpp.  Between the link and the      *)
(* unlink the file has two names, and either reader refuses a file of two  *)
(* names.                                                                  *)
(***************************************************************************)
EXTENDS FiniteSets

VARIABLES
    files,     \* [name, content] of the files the directory lists
    doubled,   \* names whose file still has its temporary name
    safe       \* files and doubled as of the last synchronization

directory == <<files, doubled, safe>>

NamesOf(F) == {f.name : f \in F}

Named(name) == {f \in files : f.name = name}

Empty == files = {} /\ doubled = {} /\ safe = [files |-> {}, doubled |-> {}]

Listed(file) == file.name \in NamesOf(files)

\* read_file, read_optional: one immutable regular file of one name.
Readable(name) == name \in NamesOf(files) \ doubled

Holds(file) == file \in files /\ Readable(file.name)

LinkFile(file) ==
    /\ files' = files \cup {file}
    /\ doubled' = doubled \cup {file.name}
    /\ UNCHANGED safe

UnlinkTemporary(file) ==
    /\ doubled' = doubled \ {file.name}
    /\ UNCHANGED <<files, safe>>

SyncDirectory ==
    /\ safe' = [files |-> files, doubled |-> doubled]
    /\ UNCHANGED <<files, doubled>>

\* Every directory change since the last synchronization survives or not.
LosePower ==
    /\ \E S \in SUBSET (files \ safe.files) : files' = safe.files \cup S
    /\ \E T \in SUBSET ((safe.doubled \ doubled) \cup NamesOf(files' \ safe.files)) :
         doubled' = (safe.doubled \cap doubled) \cup T
    /\ safe' = [files |-> files', doubled |-> doubled']

DirectoryOK ==
    /\ \A f, g \in files : f.name = g.name => f = g
    /\ doubled \subseteq NamesOf(files)
    /\ safe.files \subseteq files /\ safe.doubled \subseteq NamesOf(safe.files)

=============================================================================
