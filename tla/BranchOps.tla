----------------------------- MODULE BranchOps -----------------------------
(***************************************************************************)
(* Branch switching and pulling (internal/envoy/workspace_manager.go): a   *)
(* request looks at the list of sleeves, then at the working tree, and     *)
(* then lets git change the tree; nothing is locked in between.            *)
(*                                                                         *)
(* The list and the disk belong to other components: this module reads     *)
(* them and never writes them, and Envoy supplies them.  FetchRemote       *)
(* changes remote-tracking refs only, which nothing here has.              *)
(***************************************************************************)
CONSTANTS
  Ops,            \* goroutines that serve POST /api/workspaces/branches
  Workspaces,     \* workspace paths
  Heads,          \* what can be checked out: a branch, at a commit
  DefaultHead     \* what a clone checks out

VARIABLES
  op,      \* op[o]: the request o serves and where it is
  tree,    \* tree[w]: the working tree of workspace w
  repos,   \* the workspaces that have a .git directory
  listed   \* the workspaces of SleeveManager.List

branchVars == <<op, tree>>

Tree == [head : Heads, dirty : BOOLEAN]    \* dirty: has uncommitted changes
FreshTree == [head |-> DefaultHead, dirty |-> FALSE]

NoOp == [pc |-> "idle"]
OpPC == {"inuse", "clean", "git", "track"}
Kinds == {"switch", "track", "pull"}    \* track: a switch to origin/<branch>
Request == [pc : OpPC, kind : Kinds, ws : Workspaces]

BranchTypeOK ==
  /\ op \in [Ops -> {NoOp} \cup Request \cup [pc : {"conflict"}, ws : Workspaces]]
  /\ tree \in [Workspaces -> Tree]

BranchInit ==
  /\ op = [o \in Ops |-> NoOp]
  /\ tree = [w \in Workspaces |-> FreshTree]

----------------------------------------------------------------------------
Step(o, from, to) == op[o].pc = from /\ op' = [op EXCEPT ![o].pc = to]
Done(o, from) == op[o].pc = from /\ op' = [op EXCEPT ![o] = NoOp]

\* The path and its .git directory are there; else the request is refused.
Open(o, kind, w) ==
  /\ op[o].pc \in {"idle", "conflict"}
  /\ w \in repos
  /\ op' = [op EXCEPT ![o] = [pc |-> "inuse", kind |-> kind, ws |-> w]]
  /\ UNCHANGED tree

\* Any listed sleeve that mounts the workspace, whatever its status.
IsWorkspaceInUse(w) == w \in listed

\* Mutant: the list is not looked at.
CheckNothing(o) == Step(o, "inuse", "clean") /\ UNCHANGED tree

CheckInUse(o) ==
  /\ op[o].pc = "inuse"
  /\ IF IsWorkspaceInUse(op[o].ws)
       THEN op' = [op EXCEPT ![o] = [pc |-> "conflict", ws |-> @.ws]]
       ELSE Step(o, "inuse", "clean")
  /\ UNCHANGED tree

\* getGitUncommittedCount is 0 for a clean tree, and when git status fails.
CheckClean(o) ==
  /\ \/ Step(o, "clean", "git")
     \/ Done(o, "clean") /\ tree[op[o].ws].dirty
  /\ UNCHANGED tree

\* git moves to the branch and takes any uncommitted changes along.
Moves(o, from) ==
  /\ Done(o, from)
  /\ op[o].ws \in repos
  /\ \E head \in Heads : tree' = [tree EXCEPT ![op[o].ws].head = head]

Fails(o, from) == Done(o, from) /\ UNCHANGED tree

\* For origin/<branch>, a branch that cannot be checked out is created.
Checkout(o) ==
  \/ op[o].kind \in {"switch", "track"} /\ Moves(o, "git")
  \/ op[o].kind = "switch" /\ Fails(o, "git")
  \/ op[o].kind = "track" /\ Step(o, "git", "track") /\ UNCHANGED tree

CheckoutTracking(o) == Moves(o, "track") \/ Fails(o, "track")

\* git pull --ff-only: a fast-forward, or nothing.
PullFastForward(o) == op[o].kind = "pull" /\ (Moves(o, "git") \/ Fails(o, "git"))

\* The process ends, and the git it runs with it.
OpsLost == op' = [o \in Ops |-> NoOp] /\ UNCHANGED tree

----------------------------------------------------------------------------
BranchStep(o) ==
  \/ op[o].pc \in {"idle", "conflict"} /\ \E kind \in Kinds, w \in Workspaces : Open(o, kind, w)
  \/ op[o].pc = "inuse" /\ CheckInUse(o)
  \/ op[o].pc = "clean" /\ CheckClean(o)
  \/ op[o].pc = "git" /\ (Checkout(o) \/ PullFastForward(o))
  \/ op[o].pc = "track" /\ CheckoutTracking(o)

=============================================================================
