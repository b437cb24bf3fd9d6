------------------------------ MODULE UseFile ------------------------------
(***************************************************************************)
(* use("name"): resolving, caching and evaluating library files             *)
(* (kap-core/src/evaluator.rs, use_file, IncludeGuard, and the statement    *)
(* loop of eval_string_in_env_tolerant_inner).                             *)
(*                                                                         *)
(* A file's statements either bind something (abstracted, see Scopes) or    *)
(* use another file.  Files can be missing, contain a statement that fails, *)
(* and be repaired on disk between two statements of the session.           *)
(***************************************************************************)
EXTENDS Naturals, Sequences, FiniteSets

CONSTANTS
  Request,      \* the names programs pass to use()
  Basename,     \* file names without their directories
  Plain,        \* a statement that uses no file
  MaxDepth,     \* bound: loads nested in each other
  MaxRequests,  \* bound: use() statements of the session
  BaseOf,       \* the basename of each requested name
  Program       \* the statements of the file a request resolves to

ASSUME UseFileAssumption ==
  /\ Plain \notin Request
  /\ MaxDepth \in Nat /\ MaxRequests \in Nat
  /\ BaseOf \in [Request -> Basename]
  /\ Program \in [Request -> Seq(Request \cup {Plain})]

VARIABLES
  includeStack,   \* basenames whose load is in flight
  includeLoaded,  \* basenames whose load has started in this session
  loads,          \* the files being evaluated: name and next statement
  raising,        \* an error is propagating
  missing,        \* names no directory of the search path holds
  broken,         \* names of files with a statement that fails
  requests,       \* use() statements of the session so far
  completed       \* history: names whose file was evaluated to its end

engineVars == <<includeStack, includeLoaded>>
diskVars   == <<missing, broken>>
vars == <<engineVars, loads, raising, diskVars, requests, completed>>

Load == [name : Request, pc : Nat \ {0}]

TypeOK ==
  /\ includeStack \subseteq Basename
  /\ includeLoaded \subseteq Basename
  /\ loads \in Seq(Load)
  /\ raising \in BOOLEAN
  /\ missing \subseteq Request /\ broken \subseteq Request
  /\ requests \in 0..MaxRequests
  /\ completed \subseteq Request

Init ==
  /\ includeStack = {} /\ includeLoaded = {}
  /\ loads = <<>>
  /\ raising = FALSE
  /\ missing \in SUBSET Request /\ broken \in SUBSET Request
  /\ requests = 0
  /\ completed = {}

-----------------------------------------------------------------------------

Running   == loads # <<>>
Innermost == loads[Len(loads)]
Advanced  == [loads EXCEPT ![Len(loads)].pc = @ + 1]
AtEnd     == Innermost.pc > Len(Program[Innermost.name])

(* The next statement of the running code is use(r): the session's own, or  *)
(* the innermost file's.  "rest" is what remains to be evaluated after it.  *)
Uses(r, rest) ==
  /\ ~raising
  /\ \/ /\ ~Running
        /\ requests < MaxRequests
        /\ requests' = requests + 1
        /\ rest = loads
     \/ /\ Running /\ ~AtEnd
        /\ Program[Innermost.name][Innermost.pc] = r
        /\ rest = Advanced
        /\ UNCHANGED requests

Rest == IF Running THEN Advanced ELSE loads

(* Mutant: only a file that uses itself directly is stopped.               *)
CachedDirect(r) == Running /\ BaseOf[Innermost.name] = BaseOf[r]

(* Mutant: no cache of loaded files, only the recursion guard.             *)
CachedInFlight(r) == BaseOf[r] \in includeStack

(* The two guards: in flight, or already loaded.                           *)
Cached(r) == BaseOf[r] \in includeStack \cup includeLoaded

Skip(r) ==
  /\ Uses(r, Rest)
  /\ Cached(r)
  /\ loads' = Rest
  /\ UNCHANGED <<engineVars, raising, diskVars, completed>>

NotFound(r) ==
  /\ Uses(r, Rest)
  /\ ~Cached(r)
  /\ r \in missing
  /\ raising' = TRUE
  /\ loads' = Rest
  /\ UNCHANGED <<engineVars, diskVars, completed>>

Begin(r) ==
  /\ Uses(r, Rest)
  /\ ~Cached(r)
  /\ r \notin missing
  /\ Len(loads) < MaxDepth
  /\ includeStack' = includeStack \cup {BaseOf[r]}
  /\ includeLoaded' = includeLoaded \cup {BaseOf[r]}
  /\ loads' = Append(Rest, [name |-> r, pc |-> 1])
  /\ UNCHANGED <<raising, diskVars, completed>>

(* A statement of the innermost file that uses no file.                    *)
Evaluate ==
  /\ ~raising /\ Running /\ ~AtEnd
  /\ Program[Innermost.name][Innermost.pc] = Plain
  /\ raising' = (Innermost.name \in broken)
  /\ loads' = Advanced
  /\ UNCHANGED <<engineVars, diskVars, requests, completed>>

(* Mutant: the recursion guard is released on success only.                *)
EndGuardKept ==
  /\ Running /\ (raising \/ AtEnd)
  /\ includeStack' = IF raising THEN includeStack
                     ELSE includeStack \ {BaseOf[Innermost.name]}
  /\ loads' = SubSeq(loads, 1, Len(loads) - 1)
  /\ completed' = IF raising THEN completed
                             ELSE completed \cup {Innermost.name}
  /\ UNCHANGED <<includeLoaded, raising, diskVars, requests>>

(* IncludeGuard::drop, on every way out of use_file: at the end of the file *)
(* and when a statement of it failed, which aborts the file.               *)
End ==
  /\ Running
  /\ raising \/ AtEnd
  /\ includeStack' = includeStack \ {BaseOf[Innermost.name]}
  /\ loads' = SubSeq(loads, 1, Len(loads) - 1)
  /\ completed' = IF raising THEN completed
                             ELSE completed \cup {Innermost.name}
  /\ UNCHANGED <<includeLoaded, raising, diskVars, requests>>

(* The session reports the error, or makeThread swallows it in a file.     *)
Handle ==
  /\ raising
  /\ raising' = FALSE
  /\ UNCHANGED <<engineVars, loads, diskVars, requests, completed>>

(* Someone installs the missing files, or corrects the broken ones.        *)
Repair ==
  /\ ~Running /\ ~raising
  /\ missing' = {} /\ broken' = {}
  /\ UNCHANGED <<engineVars, loads, raising, requests, completed>>

LoaderStep ==
  \/ End \/ Evaluate \/ Handle
  \/ Running /\ \E r \in Request : Skip(r) \/ NotFound(r) \/ Begin(r)

Next ==
  \/ \E r \in Request : Skip(r) \/ NotFound(r) \/ Begin(r)
  \/ Evaluate \/ End \/ Handle
  \/ Repair

(* The interpreter keeps evaluating what it started; the session need not   *)
(* issue another use().                                                    *)
Spec == Init /\ [][Next]_vars /\ WF_vars(LoaderStep)

-----------------------------------------------------------------------------
(* Properties                                                              *)

(* The recursion guard names exactly the loads in progress, on every path   *)
(* out of a load, and no file is loading inside itself.                    *)
GuardMatchesLoads ==
  /\ includeStack = {BaseOf[loads[i].name] : i \in DOMAIN loads}
  /\ \A i, j \in DOMAIN loads :
       BaseOf[loads[i].name] = BaseOf[loads[j].name] => i = j

(* Files that use each other, fail or are missing never keep the session    *)
(* from its next statement.                                                *)
EveryUseReturns == Running ~> ~Running

(* The loader implements LoadOnce: nested, at most once, always ended.     *)
Abstract == INSTANCE LoadOnce WITH
  loading <- [i \in DOMAIN loads |-> BaseOf[loads[i].name]],
  done    <- includeLoaded \ includeStack

ImplementsLoadOnce == Abstract!Spec

(* When use(r) answers from the cache and nothing failed, a file of that    *)
(* basename was evaluated to its end or is being evaluated right now.      *)
CacheHitIsLoaded ==
  [][\A r \in Request : Skip(r) =>
       \/ BaseOf[r] \in includeStack
       \/ \E s \in completed : BaseOf[s] = BaseOf[r]]_vars

=============================================================================
