----------------------------- MODULE IamAdvisor -----------------------------
(***************************************************************************)
(* iam-least-privilege-advisor: the analyzer-trigger Lambda stores the     *)
(* findings of the day in S3 and starts the policy-advisor Lambda, which   *)
(* lets a language model shorten the policies of every role that has       *)
(* unused actions, checks each answer and proposes it as a pull request.   *)
(* An asynchronous invocation that fails or dies is repeated as a whole.   *)
(*                                                                         *)
(* GitHub, IAM, Access Analyzer and Lambda's retries are modelled from how *)
(* the code uses them.  GitHub refuses to create a branch that exists and  *)
(* to put a file that exists when no blob SHA is sent.                     *)
(***************************************************************************)
EXTENDS Naturals, Sequences, Functions

CONSTANTS
  Resource,    \* ARNs of what Access Analyzer looks at
  ResourceType,\* ResourceType[r]: "role", "user" or "other"
  ShortName,   \* ShortName[r]: the first ROLE_NAME_MAX_LEN letters of its name
  Attached,    \* Attached[r]: its managed policies in order, Nothing: no such role
  Document,    \* Document[p]: the statements of policy p in order
  Revisions,   \* Revisions[p]: the documents the model comes up with for p
  Summaries,   \* the lists of finding summaries the analyzer may return
  Invocation,  \* slots for invocations of policy-advisor
  MaxAttempts, \* how often Lambda runs an asynchronous invocation
  MaxDay,      \* bound: days
  MaxScans,    \* bound: runs of analyzer-trigger and invocations by hand
  MaxTroubles, \* bound: failing calls and invocations that die
  Lower,       \* Lower[a]: the action a in small letters
  Malformed,   \* an answer without Version or without a list of statements
  Nothing

Day == 1..MaxDay
Policy == DOMAIN Document

VARIABLES
  day,       \* the day in Japan
  scanned,   \* what analyzer-trigger holds: the findings, the key of the day
             \* and whether it has saved them; or Nothing
  stored,    \* stored[d]: the findings file of day d in S3, or Nothing
  scans,     \* number of scans
  run,       \* run[i]: the state of invocation i of policy-advisor
  branch,    \* branch[n]: what the policy file holds on branch n, or Nothing;
             \* the domain is the set of branches
  main,      \* main[s]: what the policy file of short name s holds on main
  prs,       \* the open pull requests
  troubles   \* number of troubles so far

analyzer == <<scanned, stored, scans>>
github == <<branch, main, prs>>
advisorVars == <<day, analyzer, run, github, troubles>>

-----------------------------------------------------------------------------
(* Findings.                                                               *)

\* Roles and users with an unused action; the rest is left out.  What is kept
\* keeps its place.
Extract(summaries) ==
  Restrict(summaries, {n \in DOMAIN summaries :
                         /\ ResourceType[summaries[n].resource] # "other"
                         /\ summaries[n].action # Nothing})

\* The places at which a resource comes up first: the loop over the roles goes
\* through them in their order.
RolesOf(findings) ==
  {n \in DOMAIN findings : \A m \in DOMAIN findings :
     m < n => findings[m].resource # findings[n].resource}

UnusedOf(findings, r) ==
  {findings[n].action : n \in {m \in DOMAIN findings : findings[m].resource = r}}

First(places) == CHOOSE n \in places : \A m \in places : n <= m

-----------------------------------------------------------------------------
(* validate_ai_policy.  A statement is a record of sid, effect, actions,   *)
(* resource and condition; the order of actions is not distinguished.      *)

NormalizeActions(actions) == {Lower[a] : a \in actions}

StmtKey(s) == IF s.sid # Nothing THEN <<s.sid>>
              ELSE <<s.effect, s.actions, s.resource>>

\* The dictionary built from a list: of statements with one key the last stays.
ByKey(doc) ==
  LET LastOf(k) == CHOOSE n \in DOMAIN doc :
                   /\ StmtKey(doc[n]) = k
                   /\ \A m \in DOMAIN doc : StmtKey(doc[m]) = k => m <= n
  IN  [k \in {StmtKey(doc[n]) : n \in DOMAIN doc} |-> doc[LastOf(k)]]

\* Mutant: conditions and Deny statements are not looked at.
ValidateActionsOnly(original, revised, unused) ==
  /\ revised # Malformed
  /\ LET old == ByKey(original)
         new == ByKey(revised)
     IN  \A k \in DOMAIN old :
           \/ old[k].actions \subseteq unused
           \/ /\ k \in DOMAIN new
              /\ NormalizeActions(old[k].actions) \ NormalizeActions(new[k].actions)
                   \subseteq NormalizeActions(unused)

Validate(original, revised, unused) ==
  /\ revised # Malformed
  /\ LET old == ByKey(original)
         new == ByKey(revised)
         used(stmt) == NormalizeActions(stmt.actions) \ NormalizeActions(unused)
     IN  \A k \in DOMAIN old :
           IF old[k].effect = "Deny" THEN k \in DOMAIN new /\ new[k] = old[k]
           ELSE IF k \notin DOMAIN new THEN used(old[k]) = {}
           ELSE /\ used(old[k]) \subseteq NormalizeActions(new[k].actions)
                /\ old[k].resource = new[k].resource
                /\ old[k].condition = new[k].condition

-----------------------------------------------------------------------------
(* State.                                                                  *)

\* What the generated Terraform file says and, not in the file, whether the
\* warnings that came with it are a list.
Proposals ==
  [role : Resource, policy : Policy, statements : UNION {Revisions[p] : p \in Policy},
   unused : SUBSET UNION {{f.action : f \in Range(s)} : s \in Summaries},
   listed : BOOLEAN]

BranchNames == [day : Day, short : {ShortName[r] : r \in Resource}]

\* roles and policies are the places, in the findings and in the list of the
\* attached policies, which the loops have before them.
Waiting(pc, key, tries) ==
  [pc |-> pc, key |-> key, tries |-> tries, findings |-> <<>>,
   roles |-> {}, policies |-> {}, file |-> Nothing, head |-> Nothing]

Idle == Waiting("idle", Nothing, 0)
Queued(key, tries) == Waiting("queued", key, tries)

Findings == {Extract(s) : s \in Summaries}

Scans == [findings : Findings, key : Day, saved : BOOLEAN]

ASSUME AdvisorAssumption ==
  /\ \A r \in Resource : ResourceType[r] \in {"role", "user", "other"}
  /\ \A r \in Resource : Attached[r] # Nothing => Attached[r] \in Seq(Policy)
  /\ \A s \in Summaries :
       s \in Seq(Range(s)) /\ \A n \in DOMAIN s : s[n].resource \in Resource
  /\ \A p \in Policy : \A s \in Range(Document[p]) : s.effect \in {"Allow", "Deny"}
  /\ \A p \in Policy : Document[p] \in Seq(Range(Document[p]))
  /\ DOMAIN Revisions = Policy
  /\ \A p \in Policy : \A d \in Revisions[p] : d = Malformed \/ d \in Seq(Range(d))
  /\ MaxAttempts \in Nat \ {0} /\ MaxDay \in Nat \ {0} /\ MaxScans \in Nat
  /\ MaxTroubles \in Nat
  /\ Nothing \notin Proposals /\ Nothing \notin Findings

RunState ==
  [pc : {"idle", "queued", "role", "policy", "branch", "commit", "pull", "notify"},
   key : Day \cup {Nothing}, tries : 0..(MaxAttempts - 1),
   findings : Findings \cup {<<>>}, roles : SUBSET Nat, policies : SUBSET Nat,
   file : Proposals \cup {Nothing}, head : BranchNames \cup {Nothing}]

AdvisorTypeOK ==
  /\ day \in Day
  /\ scanned \in Scans \cup {Nothing}
  /\ stored \in [Day -> Findings \cup {Nothing}]
  /\ scans \in 0..MaxScans
  /\ run \in [Invocation -> RunState]
  /\ branch \in [DOMAIN branch -> Proposals \cup {Nothing}]
  /\ DOMAIN branch \subseteq BranchNames
  /\ main \in [{ShortName[r] : r \in Resource} -> Proposals \cup {Nothing}]
  /\ prs \subseteq [head : BranchNames, role : Resource, policy : Policy]
  /\ troubles \in 0..MaxTroubles

AdvisorInit ==
  /\ day = 1 /\ scanned = Nothing /\ stored = [d \in Day |-> Nothing] /\ scans = 0
  /\ run = [i \in Invocation |-> Idle]
  /\ branch = [n \in {} |-> Nothing]
  /\ main = [s \in {ShortName[r] : r \in Resource} |-> Nothing]
  /\ prs = {} /\ troubles = 0

Trouble == troubles < MaxTroubles /\ troubles' = troubles + 1

-----------------------------------------------------------------------------
(* analyzer-trigger.  Its scan is a wait of fixed length.                  *)

Scan ==
  /\ scanned = Nothing /\ scans < MaxScans
  /\ \E s \in Summaries :
       scanned' = [findings |-> Extract(s), key |-> day, saved |-> FALSE]
  /\ scans' = scans + 1
  /\ UNCHANGED <<day, stored, run, github, troubles>>

\* A slot for an asynchronous invocation with this key, or without.
Enqueue(key) ==
  \E i \in Invocation :
    /\ run[i].pc = "idle"
    /\ run' = [run EXCEPT ![i] = Queued(key, 0)]

\* The file of the day is put, over an earlier one.
PutFindings == stored' = [stored EXCEPT ![scanned.key] = scanned.findings]

Save ==
  /\ scanned # Nothing /\ ~scanned.saved
  /\ PutFindings
  /\ scanned' = [scanned EXCEPT !.saved = TRUE]
  /\ UNCHANGED <<day, scans, run, github, troubles>>

\* Once the file is there policy-advisor is started with its key.
InvokePolicyAdvisor ==
  /\ scanned # Nothing /\ scanned.saved
  /\ Enqueue(scanned.key)
  /\ scanned' = Nothing
  /\ UNCHANGED <<day, stored, scans, github, troubles>>

\* The call raises, though it may have had its effect, or the Lambda dies.  A
\* repetition begins with a scan.
TriggerFails ==
  /\ scanned # Nothing /\ Trouble
  /\ \/ UNCHANGED <<stored, run>>
     \/ ~scanned.saved /\ PutFindings /\ UNCHANGED run
     \/ scanned.saved /\ Enqueue(scanned.key) /\ UNCHANGED stored
  /\ scanned' = Nothing
  /\ UNCHANGED <<day, scans, github>>

\* policy-advisor is started by hand without a key.
InvokeByHand ==
  /\ scans < MaxScans
  /\ scans' = scans + 1
  /\ Enqueue(Nothing)
  /\ UNCHANGED <<day, scanned, stored, github, troubles>>

-----------------------------------------------------------------------------
(* policy-advisor.                                                         *)

\* The invocation raises or dies; Lambda repeats it from the beginning.
Fail(i) ==
  run' = [run EXCEPT ![i] =
    IF run[i].tries + 1 < MaxAttempts
    THEN Queued(run[i].key, run[i].tries + 1)
    ELSE Idle]

\* The key the invocation was started with, or that of the day it runs on.
ResolveKey(i) == IF run[i].key = Nothing THEN day ELSE run[i].key

LoadFindings(key) == stored[key]

\* The findings are read and grouped by role; it is an error if there are none.
Begin(i) ==
  /\ run[i].pc = "queued"
  /\ LET findings == LoadFindings(ResolveKey(i))
     IN  IF findings = Nothing THEN Fail(i)
         ELSE run' = [run EXCEPT ![i].pc = "role", ![i].findings = findings,
                                 ![i].roles = RolesOf(findings)]
  /\ UNCHANGED <<day, analyzer, github, troubles>>

\* The role the loop is at.
RoleOf(i) == run[i].findings[First(run[i].roles)].resource

\* get_managed_policies: a policy that cannot be read is left out, a failure
\* to list them is not caught.
FetchPolicies(i) ==
  LET r == RoleOf(i)
  IN  \/ /\ Attached[r] = Nothing
         /\ Fail(i) /\ UNCHANGED troubles
      \/ /\ Attached[r] # Nothing
         /\ \E readable \in SUBSET DOMAIN Attached[r] :
              /\ IF readable = DOMAIN Attached[r] THEN UNCHANGED troubles ELSE Trouble
              /\ run' = [run EXCEPT
                   ![i].pc = IF readable = {} THEN "role" ELSE "policy",
                   ![i].roles = IF readable = {} THEN @ \ {First(@)} ELSE @,
                   ![i].policies = readable]

\* The loop over the roles; at its end the invocation returns.
NextRole(i) ==
  /\ run[i].pc = "role"
  /\ IF run[i].roles = {}
     THEN run' = [run EXCEPT ![i] = Idle] /\ UNCHANGED troubles
     ELSE FetchPolicies(i)
  /\ UNCHANGED <<day, analyzer, github>>

\* The model answers with a document or, after the retries, with nothing.  It
\* adds a list of removed actions, which may be empty or no list at all, and
\* the warnings, which may be no list.
Answers(p) ==
  [document : Revisions[p] \cup {Nothing}, removed : {"some", "none", "no list"},
   listed : BOOLEAN]

\* Whether the file is generated: what is left out otherwise is only logged.
Accepted(answer, p, unused) ==
  /\ answer.document # Nothing /\ Validate(Document[p], answer.document, unused)
  /\ answer.removed # "none"

\* The loop over the policies of a role.  The file cannot be written with a
\* list that is none.
NextPolicy(i) ==
  /\ run[i].pc = "policy"
  /\ IF run[i].policies = {}
     THEN run' = [run EXCEPT ![i].pc = "role", ![i].roles = @ \ {First(@)}]
     ELSE LET r == RoleOf(i)
              p == Attached[r][First(run[i].policies)]
              unused == UnusedOf(run[i].findings, r)
          IN  \E answer \in Answers(p) :
                IF ~Accepted(answer, p, unused)
                THEN run' = [run EXCEPT ![i].policies = @ \ {First(@)}]
                ELSE IF answer.removed = "no list" THEN Fail(i)
                ELSE run' = [run EXCEPT ![i].pc = "branch",
                       ![i].file = [role |-> r, policy |-> p,
                                    statements |-> answer.document, unused |-> unused,
                                    listed |-> answer.listed]]
  /\ UNCHANGED <<day, analyzer, github, troubles>>

BranchName(i) == [day |-> day, short |-> ShortName[run[i].file.role]]

\* Mutant: a branch that exists is set back to main.
ResetBranch(i) ==
  LET n == BranchName(i)
  IN  /\ branch' = [m \in DOMAIN branch \cup {n} |->
                      IF m = n THEN main[n.short] ELSE branch[m]]
      /\ run' = [run EXCEPT ![i].pc = "commit", ![i].head = n]

\* A branch of main for the day and the role; GitHub refuses a second one.
CreateBranch(i) ==
  LET n == BranchName(i)
  IN  IF n \in DOMAIN branch
      THEN Fail(i) /\ UNCHANGED branch
      ELSE /\ branch' = [m \in DOMAIN branch \cup {n} |->
                           IF m = n THEN main[n.short] ELSE branch[m]]
           /\ run' = [run EXCEPT ![i].pc = "commit", ![i].head = n]

\* The file is put without the SHA of an earlier version, so a file that main
\* has already is refused.
CommitFile(i) ==
  LET n == run[i].head
  IN  IF n \notin DOMAIN branch \/ branch[n] # Nothing
      THEN Fail(i) /\ UNCHANGED branch
      ELSE /\ branch' = [branch EXCEPT ![n] = run[i].file]
           /\ run' = [run EXCEPT ![i].pc = "pull"]

PullRequest(i) ==
  [head |-> run[i].head, role |-> run[i].file.role, policy |-> run[i].file.policy]

\* The text is composed first, which raises when the warnings are no list;
\* then GitHub is asked.
CreatePullRequest(i) ==
  IF \/ ~run[i].file.listed
     \/ run[i].head \notin DOMAIN branch
     \/ \E pr \in prs : pr.head = run[i].head
  THEN Fail(i) /\ UNCHANGED prs
  ELSE /\ prs' = prs \cup {PullRequest(i)}
       /\ run' = [run EXCEPT ![i].pc = "notify"]

\* create_pr: three calls to GitHub one after the other.
GithubCall(i) ==
  /\ \/ run[i].pc = "branch" /\ CreateBranch(i) /\ UNCHANGED prs
     \/ run[i].pc = "commit" /\ CommitFile(i) /\ UNCHANGED prs
     \/ run[i].pc = "pull" /\ CreatePullRequest(i) /\ UNCHANGED branch
  /\ UNCHANGED <<day, analyzer, main, troubles>>

\* The call raises, though it may have had its effect.
GithubCallFails(i) ==
  /\ run[i].pc \in {"branch", "commit", "pull"}
  /\ Trouble
  /\ \/ UNCHANGED <<branch, prs>>
     \/ /\ run[i].pc = "branch" /\ BranchName(i) \notin DOMAIN branch
        /\ branch' = [m \in DOMAIN branch \cup {BranchName(i)} |->
              IF m = BranchName(i) THEN main[m.short] ELSE branch[m]]
        /\ UNCHANGED prs
     \/ /\ run[i].pc = "commit" /\ run[i].head \in DOMAIN branch
        /\ branch[run[i].head] = Nothing
        /\ branch' = [branch EXCEPT ![run[i].head] = run[i].file]
        /\ UNCHANGED prs
     \/ /\ run[i].pc = "pull" /\ run[i].file.listed
        /\ run[i].head \in DOMAIN branch
        /\ prs' = prs \cup {PullRequest(i)}
        /\ UNCHANGED branch
  /\ Fail(i)
  /\ UNCHANGED <<day, analyzer, main>>

\* The chat message, which nothing reads; its failure is only logged.
Notify(i) ==
  /\ run[i].pc = "notify"
  /\ run' = [run EXCEPT ![i].pc = "policy", ![i].policies = @ \ {First(@)},
                        ![i].file = Nothing, ![i].head = Nothing]
  /\ UNCHANGED <<day, analyzer, github, troubles>>

\* The Lambda dies, for example when its time is up.
Die(i) ==
  /\ run[i].pc \notin {"idle", "queued"}
  /\ Trouble
  /\ Fail(i)
  /\ UNCHANGED <<day, analyzer, github>>

-----------------------------------------------------------------------------
(* Around the two Lambdas.                                                 *)

\* An engineer merges a pull request, which is a conflict when main has got
\* the file by now.  The branch is removed, or stays.
Merge(pr) ==
  /\ main[pr.head.short] = Nothing
  /\ main' = [main EXCEPT ![pr.head.short] = branch[pr.head]]
  /\ branch' \in {branch, [n \in DOMAIN branch \ {pr.head} |-> branch[n]]}
  /\ prs' = prs \ {pr}
  /\ UNCHANGED <<day, analyzer, run, troubles>>

\* An engineer closes a pull request and removes its branch.
Reject(pr) ==
  /\ prs' = prs \ {pr}
  /\ branch' = [n \in DOMAIN branch \ {pr.head} |-> branch[n]]
  /\ UNCHANGED <<day, analyzer, run, main, troubles>>

NextDay ==
  /\ day < MaxDay
  /\ day' = day + 1
  /\ UNCHANGED <<analyzer, run, github, troubles>>

AdvisorNext ==
  \/ Scan \/ Save \/ InvokePolicyAdvisor \/ TriggerFails \/ InvokeByHand \/ NextDay
  \/ \E i \in Invocation :
       \/ Begin(i) \/ NextRole(i) \/ NextPolicy(i)
       \/ GithubCall(i) \/ GithubCallFails(i) \/ Notify(i) \/ Die(i)
  \/ \E pr \in prs : Merge(pr) \/ Reject(pr)

AdvisorSpec == AdvisorInit /\ [][AdvisorNext]_advisorVars

-----------------------------------------------------------------------------
(* Properties.                                                             *)

(* analyzer-trigger starts policy-advisor only for a file that is in S3,   *)
(* though the put and the start are two calls, each may fail after it took *)
(* effect, and the day may change between them: such an invocation and its *)
(* repetitions never fail for want of the file, as one by hand may.        *)
FindingsAreThere ==
  \A i \in Invocation :
    run[i].pc = "queued" /\ run[i].key # Nothing => stored[run[i].key] # Nothing

Files == ({branch[n] : n \in DOMAIN branch} \cup {main[s] : s \in DOMAIN main})
           \ {Nothing}

Keeps(doc, s, unused) ==
  \/ s.effect = "Allow" /\ NormalizeActions(s.actions) \subseteq NormalizeActions(unused)
  \/ \E t \in Range(doc) :
       IF s.effect = "Deny" THEN t = s
       ELSE /\ NormalizeActions(s.actions) \ NormalizeActions(unused)
                 \subseteq NormalizeActions(t.actions)
            /\ t.resource = s.resource /\ t.condition = s.condition

(* Whatever the model answered, a file on a branch or on main keeps every  *)
(* Deny statement of its policy as it was, and lists the actions of every  *)
(* other statement that the findings do not call unused, for the same      *)
(* resource and condition: provided no two statements of the policy have   *)
(* the same key.                                                           *)
FilesKeepTheRest ==
  \A file \in Files :
    LET doc == Document[file.policy]
    IN  IsInjective([n \in DOMAIN doc |-> StmtKey(doc[n])]) =>
          \A s \in Range(doc) : Keeps(file.statements, s, file.unused)

(* Retries after a lost answer and overlapping invocations open no second  *)
(* pull request for one policy of a role on one day: that the branch name  *)
(* is taken is the only lock there is.                                     *)
NoDuplicateProposal ==
  \A a, b \in prs :
    a.role = b.role /\ a.policy = b.policy /\ a.head.day = b.head.day => a = b

(* A pull request shows the policy of the role in its title, although      *)
(* other policies of the role, other roles with the same short name and    *)
(* other invocations write to a branch and a file of the same name.        *)
PullRequestsShowTheirProposal ==
  \A pr \in prs :
    /\ pr.head \in DOMAIN branch /\ branch[pr.head] # Nothing
    /\ branch[pr.head].role = pr.role /\ branch[pr.head].policy = pr.policy

(* A branch on which no invocation works has a pull request, or a call     *)
(* failed, or main has the file already, or the warnings of the answer it  *)
(* was made from are no list: no other role or policy, no other invocation *)
(* and no repetition leaves a branch without a pull request behind.        *)
OrphanBranchesHaveACause ==
  \A n \in DOMAIN branch :
    \/ \E i \in Invocation : run[i].head = n
    \/ \E pr \in prs : pr.head = n
    \/ troubles > 0 \/ main[n.short] # Nothing
    \/ branch[n] # Nothing /\ ~branch[n].listed

(* Types, and all that is said above of pull requests and branches.        *)
PullRequestsAreSound ==
  /\ AdvisorTypeOK /\ FindingsAreThere
  /\ NoDuplicateProposal /\ PullRequestsShowTheirProposal
  /\ OrphanBranchesHaveACause
=============================================================================
