---------------------------- MODULE SidecarRegistry ----------------------------
(***************************************************************************)
(* The registry of indexed repositories shared by the codegraph-sidecar    *)
(* commands and its server (codegraph/lib/registry.js, pool.js,            *)
(* indexer.js).  An index command reads the whole registry, puts its entry *)
(* last and writes the whole file in place, without a lock; the server     *)
(* reads it for a repository it has no open handle for.                    *)
(***************************************************************************)
EXTENDS Naturals, Sequences, FiniteSetsExt, Functions

CONSTANTS Indexers,               \* index commands that may run at once
          RepoNames, RepoRoots,   \* names and directories of repositories
          MaxIndexRuns            \* bound: index commands in one behaviour

VARIABLES env,          \* which of the two home variables are set
          file,         \* home -> what its registry.json holds
          db,           \* roots that have an index
          indexer,      \* of each command: pc, name, root, what it read, and
                        \* history: the names it has not seen the latest entry of
          handles,      \* name -> root of the server's open handles
          registered,   \* history: the roots of the finished upserts of each name
          overlooked,   \* history: names whose latest entry a writer did not know
          indexRuns

registryVars == <<env, file, db, indexer, handles, registered, overlooked, indexRuns>>

(* A registry as it is loaded is a map from names to directories; a writer *)
(* writes the values of such a map, so the array in a file has one row for *)
(* each name and their order says nothing.                                 *)
NoRows == [n \in {} |-> ""]
NeverWritten == [state |-> "missing", rows |-> NoRows]
Torn == [state |-> "torn", rows |-> NoRows]         \* opened for writing, not yet written
Whole(rows) == [state |-> "whole", rows |-> rows]
Entry(name, root) == [n \in {name} |-> root]
Gone == "gone"

HomeOrder == <<"CODEGRAPH_HOME", "GITNEXUS_HOME", "~/.codegraph", "~/.gitnexus">>
RegistryHomes == {HomeOrder[i] : i \in 1..4}
HomeCandidates == env \cup {"~/.codegraph", "~/.gitnexus"}
Present == {i \in 1..4 : HomeOrder[i] \in HomeCandidates /\ file[HomeOrder[i]] # NeverWritten}
RegistryReadPath == IF Present = {} THEN "~/.codegraph" ELSE HomeOrder[Min(Present)]
RegistryWritePath == IF "CODEGRAPH_HOME" \in env THEN "CODEGRAPH_HOME" ELSE "~/.codegraph"

LoadRegistry == file[RegistryReadPath].rows
PathIn(rows, name) == IF name \in DOMAIN rows THEN rows[name] ELSE Gone
Resolve(name) == PathIn(LoadRegistry, name)
UpsertedUnder(read, name, root) ==    \* leaves the entry it replaces in place
    [n \in DOMAIN read \cup {name} |-> IF n \in DOMAIN read THEN read[n] ELSE root]
Upserted(read, name, root) == [n \in DOMAIN read \cup {name} |-> IF n = name THEN root ELSE read[n]]

-----------------------------------------------------------------------------
NoJob == [pc |-> "idle", name |-> "", root |-> "", read |-> NoRows, unseen |-> {}]
NamesRegistered == {n \in RepoNames : registered[n] # <<>>}
InitRegistry ==
    /\ env \in SUBSET {"CODEGRAPH_HOME", "GITNEXUS_HOME"}
    /\ \E earlier \in RegistryHomes \cup {"nowhere"}, name \in RepoNames, root \in RepoRoots :
          /\ file = [h \in RegistryHomes |-> IF h = earlier THEN Whole(Entry(name, root)) ELSE NeverWritten]
          /\ db = IF earlier = "nowhere" THEN {} ELSE {root}
          /\ registered = [n \in RepoNames |-> IF n = name /\ Resolve(name) = root THEN <<root>> ELSE <<>>]
    /\ indexer = [i \in Indexers |-> NoJob]
    /\ handles = [n \in RepoNames |-> Gone]
    /\ overlooked = {} /\ indexRuns = 0

InUpsert(i) == indexer[i].pc \in {"truncate", "write"}
BeingWritten == file[RegistryWritePath] = Torn /\ \E i \in Indexers : indexer[i].pc = "write"

StartIndex(i) ==
    /\ indexer[i].pc = "idle" /\ indexRuns < MaxIndexRuns
    /\ \E name \in RepoNames, root \in RepoRoots :
          indexer' = [indexer EXCEPT ![i] = [NoJob EXCEPT !.pc = "index", !.name = name, !.root = root]]
    /\ indexRuns' = indexRuns + 1
    /\ UNCHANGED <<env, file, db, handles, registered, overlooked>>
IndexRepo(i) ==
    /\ indexer[i].pc = "index"
    /\ db' = db \cup {indexer[i].root}
    /\ indexer' = [indexer EXCEPT ![i].pc = "read"]
    /\ UNCHANGED <<env, file, handles, registered, overlooked, indexRuns>>
ReadRegistry(i) ==
    /\ indexer[i].pc = "read"
    /\ indexer' = [indexer EXCEPT ![i] = [@ EXCEPT !.pc = "truncate", !.read = LoadRegistry,
                          !.unseen = IF file[RegistryReadPath] = Torn THEN NamesRegistered ELSE {}]]
    /\ UNCHANGED <<env, file, db, handles, registered, overlooked, indexRuns>>
OpenForWriting(i) ==
    /\ indexer[i].pc = "truncate"
    /\ file' = [file EXCEPT ![RegistryWritePath] = Torn]
    /\ indexer' = [indexer EXCEPT ![i].pc = "write"]
    /\ UNCHANGED <<env, db, handles, registered, overlooked, indexRuns>>
WriteRegistry(i) ==
    /\ indexer[i].pc = "write"
    /\ file' = [file EXCEPT ![RegistryWritePath] = Whole(Upserted(indexer[i].read, indexer[i].name, indexer[i].root))]
    /\ registered' = [registered EXCEPT ![indexer[i].name] = Append(@, indexer[i].root)]
    /\ indexer' = [j \in Indexers |->
          IF j = i THEN NoJob
          ELSE IF InUpsert(j) THEN [indexer[j] EXCEPT !.unseen = @ \cup {indexer[i].name}] ELSE indexer[j]]
    /\ overlooked' = (overlooked \cup indexer[i].unseen) \ {indexer[i].name}
    /\ UNCHANGED <<env, db, handles, indexRuns>>
KillIndexer(i) ==
    /\ indexer[i].pc # "idle"
    /\ overlooked' = IF indexer[i].pc = "write" /\ file[RegistryWritePath] = Torn THEN NamesRegistered ELSE overlooked
    /\ indexer' = [indexer EXCEPT ![i] = NoJob]
    /\ UNCHANGED <<env, file, db, handles, registered, indexRuns>>

OpenCached(name) == handles[name] # Gone /\ UNCHANGED handles
OpenAnew(name) ==
    /\ handles[name] = Gone
    /\ LET root == Resolve(name) IN
       IF root \in db THEN handles' = [handles EXCEPT ![name] = root]
       ELSE UNCHANGED handles      \* 404: no such repository, or no index there
Request ==
    /\ \E name \in RepoNames : OpenCached(name) \/ OpenAnew(name)
    /\ UNCHANGED <<env, file, db, indexer, registered, overlooked, indexRuns>>
CloseAll ==
    /\ handles' = [n \in RepoNames |-> Gone]
    /\ UNCHANGED <<env, file, db, indexer, registered, overlooked, indexRuns>>

StepRegistry ==
    \/ \E i \in Indexers :
          StartIndex(i) \/ IndexRepo(i) \/ ReadRegistry(i) \/ OpenForWriting(i) \/ WriteRegistry(i) \/ KillIndexer(i)
    \/ Request
    \/ CloseAll
SpecRegistry == InitRegistry /\ [][StepRegistry]_registryVars

-----------------------------------------------------------------------------
(* With GITNEXUS_HOME alone set and a registry in it, entries are written  *)
(* to ~/.codegraph and never read back (against docs/codegraph.md:162).    *)
WritesWhereItReads == RegistryReadPath = RegistryWritePath \/ file[RegistryWritePath] = NeverWritten

Latest(n) == IF registered[n] = <<>> THEN Gone ELSE registered[n][Len(registered[n])]

(* Where it is read back at all, a registry that is not just being written *)
(* names each repository at its latest directory and keeps those of an     *)
(* earlier home, for every name but those a writer did not know: their     *)
(* entry was written after its read, it read a half-written file, or one   *)
(* died inside its write; the next index of such a repository brings it    *)
(* back.  In any case the server answers for a name only from a directory  *)
(* indexed under it (lib/registry.js:57-118, lib/pool.js open).            *)
RegisteredReposAreFound ==
    /\ WritesWhereItReads /\ ~BeingWritten =>
          \A n \in RepoNames \ overlooked : Resolve(n) = Latest(n)
    /\ \A n \in RepoNames : handles[n] # Gone => handles[n] \in Range(registered[n])
=============================================================================
