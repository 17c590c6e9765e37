-------------------------- MODULE RepositoryDelta --------------------------
(***************************************************************************)
(* The difference between two loaded repositories, as the server computes  *)
(* it (internal/repositoryview/delta.go), and what the browser does with   *)
(* one (applyDelta of web/graph/graphController.js).                       *)
(*                                                                         *)
(* A loaded repository is what the two of them can tell apart: the set of  *)
(* commit hashes, the graph-visible branches with their tips, the commit   *)
(* of HEAD, and the tags and stashes, which a delta carries as a whole.    *)
(* Commits are content addressed, so that equal hashes are equal commits;  *)
(* the branch label a commit is decorated with is not part of this view.   *)
(***************************************************************************)

CONSTANTS Commit,    \* commit hashes
          Branch,    \* full names of branch refs (refs/heads/, refs/remotes/)
          HeadRef,   \* HeadRef, HeadDetached and upstream tracking, as one value
          Tags,      \* possible values of the whole tag map
          Stashes,   \* possible values of the whole stash list
          NoHash,    \* the empty hash: HEAD of a branch without commits
          NoRef, NoTags, NoStashes   \* their values in an empty repository

ASSUME NoHashAssumption == NoHash \notin Commit
ASSUME EmptyAssumption == NoRef \in HeadRef /\ NoTags \in Tags /\ NoStashes \in Stashes

PartialFcn(S, T) == UNION {[D -> T] : D \in SUBSET S}

(* What gitcore.Repository exposes to the delta and to HEAD's summary. *)
Repository == [commits  : SUBSET Commit,
               branches : PartialFcn(Branch, Commit),
               head     : Commit \cup {NoHash},
               headRef  : HeadRef,
               tags     : Tags,
               stashes  : Stashes]

EmptyRepository == [commits |-> {}, branches |-> [b \in {} |-> NoHash],
                    head |-> NoHash, headRef |-> NoRef,
                    tags |-> NoTags, stashes |-> NoStashes]

(* RepositoryDelta; a deleted branch's last hash is of no use to anyone. *)
Delta == [addedCommits    : SUBSET Commit,
          deletedCommits  : SUBSET Commit,
          addedBranches   : PartialFcn(Branch, Commit),
          amendedBranches : PartialFcn(Branch, Commit),
          deletedBranches : SUBSET Branch,
          headHash        : Commit \cup {NoHash},
          tags            : Tags,
          stashes         : Stashes]

(* The browser's graph: the commits and branches maps and state.headHash,  *)
(* state.tags and state.stashes of the graph controller.                   *)
Graph == [commits  : SUBSET Commit,
          branches : PartialFcn(Branch, Commit),
          head     : Commit \cup {NoHash},
          tags     : Tags,
          stashes  : Stashes]

GraphOf(repo) == [commits  |-> repo.commits,
                  branches |-> repo.branches,
                  head     |-> repo.head,
                  tags     |-> repo.tags,
                  stashes  |-> repo.stashes]

(* Mutant: commits that are gone are not reported. *)
DiffWithoutDeletedCommits(new, old) ==
    LET kept == DOMAIN new.branches \cap DOMAIN old.branches
        with(names) == [b \in names |-> new.branches[b]]
    IN  [addedCommits    |-> new.commits \ old.commits,
         deletedCommits  |-> {},
         addedBranches   |-> with(DOMAIN new.branches \ DOMAIN old.branches),
         amendedBranches |-> with({b \in kept : new.branches[b] # old.branches[b]}),
         deletedBranches |-> DOMAIN old.branches \ DOMAIN new.branches,
         headHash        |-> new.head,
         tags            |-> new.tags,
         stashes         |-> new.stashes]

DiffRepositories(new, old) ==
    LET kept == DOMAIN new.branches \cap DOMAIN old.branches
        with(names) == [b \in names |-> new.branches[b]]
    IN  [addedCommits    |-> new.commits \ old.commits,
         deletedCommits  |-> old.commits \ new.commits,
         addedBranches   |-> with(DOMAIN new.branches \ DOMAIN old.branches),
         amendedBranches |-> with({b \in kept : new.branches[b] # old.branches[b]}),
         deletedBranches |-> DOMAIN old.branches \ DOMAIN new.branches,
         headHash        |-> new.head,
         tags            |-> new.tags,
         stashes         |-> new.stashes]

(* HEAD, tags and stashes do not count. *)
IsEmpty(d) == /\ d.addedCommits = {}
              /\ d.deletedCommits = {}
              /\ DOMAIN d.addedBranches = {}
              /\ DOMAIN d.amendedBranches = {}
              /\ d.deletedBranches = {}

(* Mutant: amended branches are not moved. *)
applyDeltaWithoutAmended(g, d) ==
    LET names == (DOMAIN g.branches \cup DOMAIN d.addedBranches) \ d.deletedBranches
    IN  [commits  |-> (g.commits \cup d.addedCommits) \ d.deletedCommits,
         branches |-> [b \in names |-> IF b \in DOMAIN d.addedBranches
                                       THEN d.addedBranches[b] ELSE g.branches[b]],
         head     |-> IF d.headHash # NoHash THEN d.headHash ELSE g.head,
         tags     |-> d.tags,
         stashes  |-> d.stashes]

(* Additions first, then deletions; an empty headHash is not applied. *)
applyDelta(g, d) ==
    LET set   == DOMAIN d.addedBranches \cup DOMAIN d.amendedBranches
        names == (DOMAIN g.branches \cup set) \ d.deletedBranches
        tip(b) == IF b \in DOMAIN d.amendedBranches THEN d.amendedBranches[b]
                  ELSE IF b \in DOMAIN d.addedBranches THEN d.addedBranches[b]
                  ELSE g.branches[b]
    IN  [commits  |-> (g.commits \cup d.addedCommits) \ d.deletedCommits,
         branches |-> [b \in names |-> tip(b)],
         head     |-> IF d.headHash # NoHash THEN d.headHash ELSE g.head,
         tags     |-> d.tags,
         stashes  |-> d.stashes]

(* Two graphs, or a graph and a repository, agree on one commit or branch, *)
(* and on all of them.                                                     *)
AgreeOnCommit(c, g, h) == c \in g.commits <=> c \in h.commits

AgreeOnBranch(b, g, h) ==
    /\ b \in DOMAIN g.branches <=> b \in DOMAIN h.branches
    /\ b \in DOMAIN g.branches => g.branches[b] = h.branches[b]

SameGraph(g, h) == g.commits = h.commits /\ g.branches = h.branches
=============================================================================
