---------------------------- MODULE StagePolicy ----------------------------
(***************************************************************************)
(* The pure eligibility and matching rules of the dispatch pass in         *)
(* src/scheduler/queue/queue.go.  A stage row handed to these operators is *)
(* the record the queue gets back from ListIncomplete, flattened:          *)
(*   id, build, repo, name, limit         identity and concurrency keys    *)
(*   os, arch, variant, kernel, labels    the stage's platform filter      *)
(*   status, machine                      the stage's mutable columns      *)
(*   bstatus, bsource                     the joined build's status/branch *)
(* A worker is the platform filter it passed to Request.  Label maps are   *)
(* TLA+ functions from a finite set of keys to values; "" is the empty     *)
(* string the code compares variant and kernel with.                       *)
(***************************************************************************)
EXTENDS Naturals, FiniteSets, SequencesExt

\* checkLabels: equal length, and every key of a is in b with the same value.
checkLabels(a, b) ==
    /\ Cardinality(DOMAIN a) = Cardinality(DOMAIN b)
    /\ \A k \in DOMAIN a : k \in DOMAIN b /\ a[k] = b[k]

\* The body of the worker loop in signal(): may worker w run stage item?
PlatformMatch(w, item) ==
    /\ w.os = item.os
    /\ w.arch = item.arch
    /\ item.variant = "" \/ item.variant = w.variant
    /\ item.kernel = "" \/ item.kernel = w.kernel
    /\ (DOMAIN item.labels # {} \/ DOMAIN w.labels # {})
          => checkLabels(item.labels, w.labels)

\* Mutant: the count is compared with <= (an off-by-one).
withinLimitsOffByOne(st, siblings) ==
    \/ st.limit = 0
    \/ Quantify(DOMAIN siblings,
                LAMBDA i : /\ siblings[i].repo = st.repo
                           /\ siblings[i].id # st.id
                           /\ siblings[i].name = st.name
                           /\ siblings[i].id < st.id) <= st.limit

\* Mutant: every sibling is counted, not only the older ones.
withinLimitsAllSiblings(st, siblings) ==
    \/ st.limit = 0
    \/ Quantify(DOMAIN siblings,
                LAMBDA i : /\ siblings[i].repo = st.repo
                           /\ siblings[i].id # st.id
                           /\ siblings[i].name = st.name) < st.limit

\* withinLimits: fewer than stage.limit older siblings of the same repo and
\* name are incomplete (limit 0 means unlimited).
withinLimits(st, siblings) ==
    \/ st.limit = 0
    \/ Quantify(DOMAIN siblings,
                LAMBDA i : /\ siblings[i].repo = st.repo
                           /\ siblings[i].id # st.id
                           /\ siblings[i].name = st.name
                           /\ siblings[i].id < st.id) < st.limit

\* Mutant: the running-build escape looks at the sibling's build.
withinBranchLimitsSiblingStatus(st, siblings) ==
    LET first == SelectInSeq(siblings,
                    LAMBDA sib : /\ ~(sib.build = st.build \/ sib.repo # st.repo)
                                 /\ sib.bsource = "master"
                                 /\ st.bsource = "master")
    IN \/ first # 0 /\ siblings[first].bstatus = "running"
       \/ first = 0
       \/ st.build < siblings[first].build

\* withinBranchLimits: a stage of a running build may go; otherwise the first
\* sibling of another build of the same repo that is, like this stage, on
\* master decides, and lets the stage go only when its build is older.
withinBranchLimits(st, siblings) ==
    LET first == SelectInSeq(siblings,
                    LAMBDA sib : /\ ~(sib.build = st.build \/ sib.repo # st.repo)
                                 /\ sib.bsource = "master"
                                 /\ st.bsource = "master")
    IN \/ st.bstatus = "running"
       \/ first = 0
       \/ st.build < siblings[first].build

\* The filter of signal() a row must pass before any worker is tried.
Eligible(item, items) ==
    /\ withinBranchLimits(item, items)
    /\ item.status # "running"
    /\ item.machine = ""
    /\ withinLimits(item, items)
=============================================================================
