----------------------------- MODULE MC_Services -----------------------------
(* Five parts of the server that share no state: claims, drafts, webhooks,  *)
(* the numbering of writes, and cards on boards.  A behaviour is one of one *)
(* part, chosen at the start; the other parts stand still.                  *)
EXTENDS Claims, Drafts, Webhooks, Numbering, Workflow

CONSTANTS k1, k2   \* the cards: k1 may wait for k2

VARIABLE part

InClaims    == part = "claims"    /\ UNCHANGED <<part, draftVars, webhookVars, numberingVars, workflowVars>>
InDrafts    == part = "drafts"    /\ UNCHANGED <<part, vars, webhookVars, numberingVars, workflowVars>>
InWebhooks  == part = "webhooks"  /\ UNCHANGED <<part, vars, draftVars, numberingVars, workflowVars>>
InNumbering == part = "numbering" /\ UNCHANGED <<part, vars, draftVars, webhookVars, workflowVars>>
InWorkflow  == part = "workflow"  /\ UNCHANGED <<part, vars, draftVars, webhookVars, numberingVars>>

(* The definitions: one that admits one card in progress; one that admits   *)
(* any number and, written by hand, has a transition out of a terminal      *)
(* state; and the same with nothing terminal, which reopens cards.          *)
MCStates == {"todo", "in_progress", "done"}
Limited(n) == [s \in MCStates |-> IF s = "in_progress" THEN n ELSE 0]
Usual == [states |-> MCStates, terminal |-> {"done"}, limit |-> Limited(1),
          transitions |-> {<<"todo", "in_progress">>, <<"in_progress", "done">>, <<"in_progress", "todo">>}]
Reopening == [Usual EXCEPT !.transitions = @ \union {<<"done", "todo">>}, !.limit = Limited(0)]
MCBoards == {Usual, Reopening, [Reopening EXCEPT !.terminal = {}], NoBoard}

(* The cards: without and with a blocker, done, held by hand, and an ADR    *)
(* whose status is not its state.                                           *)
Plain(s, b) == [wf |-> "tasks", state |-> s, status |-> "none", adr |-> FALSE,
                held |-> FALSE, blockers |-> b, ordinal |-> 0]
MCContents == {NoCard, Plain("todo", {}), Plain("todo", {k2}), Plain("done", {}),
               [Plain("todo", {}) EXCEPT !.held = TRUE],
               [Plain("todo", {}) EXCEPT !.adr = TRUE, !.status = "done"]}

(* Where the pages are at the start: the paths are alike.  The card that    *)
(* may be waited for starts without a blocker of its own.                   *)
Placement == CHOOSE f \in [Pages -> Paths] : \A g, h \in Pages : f[g] = f[h] => g = h

MCInit ==
  /\ part \in {"claims", "drafts", "webhooks", "numbering", "workflow"}
  /\ Init /\ DraftsInit /\ WebhooksInit /\ NumberingInit /\ WorkflowInit
  /\ at = Placement
  /\ part # "workflow" => /\ \A c \in Cards : page[c] = NoCard
                          /\ \A w \in Workflows : board[w] = NoBoard
  /\ part = "workflow" => page[k2].blockers = {} /\ ~page[k2].held

ClaimStep ==
  \/ InClaims /\ Tick
  \/ \E a \in Agents, p \in Paths :
       \/ \E d \in Durations : InClaims /\ Claim(a, p, d)
       \/ InClaims /\ Release(a, p)
  \/ InClaims /\ ExpireStale
  \/ \E r \in Agents, ren \in Renames : part = "claims" /\ Plan(r, ren) /\ InClaims
  \/ InClaims /\ MovePages
  \/ InClaims /\ Begin
  \/ \E p \in Paths : InClaims /\ MoveRow(p)
  \/ InClaims /\ Commit
  \/ InClaims /\ GiveUp

DraftStep ==
  \/ \E m \in Managers :
       \/ InDrafts /\ StartManager(m)
       \/ InDrafts /\ StopManager(m)
       \/ InDrafts /\ AddWorktree(m)
       \/ InDrafts /\ AddWorktreeFails(m)
       \/ InDrafts /\ BeginSave(m)
       \/ InDrafts /\ Save(m)
       \/ InDrafts /\ AutoCommit(m)
       \/ InDrafts /\ AutoCommitFails(m)
       \/ InDrafts /\ MergeBranch(m)
       \/ InDrafts /\ MergeFails(m)
       \/ InDrafts /\ MergeReturns(m)
       \/ InDrafts /\ RemoveWorktree(m)
       \/ InDrafts /\ RemoveBranch(m)
       \/ \E d \in Drafts :
            \/ InDrafts /\ CreateBranch(m, d)
            \/ InDrafts /\ MergeCalled(m, d)
            \/ InDrafts /\ DiscardCalled(m, d)
  \/ \E w \in Writes :
       \/ \E target \in WriteTargets : InDrafts /\ WriteTo(w, target)
       \/ InDrafts /\ StoreWrite(w)
       \/ InDrafts /\ CommitWrite(w)
       \/ InDrafts /\ CommitWriteFails(w)
  \/ InDrafts /\ Crash

WebhookStep ==
  \/ \E h \in Hooks :
       \/ InWebhooks /\ DeleteHook(h)
       \/ \E e \in Events : InWebhooks /\ SendTo(h, e)
       \/ \E e \in Events : InWebhooks /\ HookGone(h, e)
  \/ \E e \in Events : InWebhooks /\ Dispatch(e)
  \/ \E w \in Posters :
       \/ InWebhooks /\ TakeJob(w)
       \/ InWebhooks /\ Posted(w)
       \/ InWebhooks /\ PostFails(w)
  \/ \E j \in timers : InWebhooks /\ TimerFires(j)
  \/ InWebhooks /\ Close
  \/ InWebhooks /\ WorkersLeave
  \/ InWebhooks /\ ServerEnds

NumberingStep ==
  \/ \E c \in Callers :
       \/ InNumbering /\ NumberAppend(c)
       \/ InNumbering /\ NumberPage(c)
       \/ InNumbering /\ Place(c)
       \/ InNumbering /\ Abandon(c)
       \/ \E n \in 1 .. MaxOwn : InNumbering /\ OwnNumber(c, n)
  \/ \E t \in placed : InNumbering /\ Index(t)
  \/ InNumbering /\ Restart

WorkflowStep ==
  \/ \E m \in Movers :
       \/ \E c \in Cards, s \in CardStates :
            \/ InWorkflow /\ Advance(m, c, s)
            \/ \E w \in Workflows : InWorkflow /\ Assign(m, c, w, s)
       \/ \E c \in Cards, n \in 0 .. 1 : InWorkflow /\ Reorder(m, c, n)
       \/ \E d \in Cards :
            \/ InWorkflow /\ CountCard(m, d)
            \/ InWorkflow /\ ReadBlocker(m, d)
            \/ InWorkflow /\ SkipPage(m, d)
       \/ InWorkflow /\ LoadBoard(m)
       \/ InWorkflow /\ WithinLimit(m)
       \/ InWorkflow /\ CheckMove(m)
       \/ InWorkflow /\ Unblocked(m)
       \/ InWorkflow /\ AssignReads(m)
       \/ InWorkflow /\ WriteCard(m)
       \/ InWorkflow /\ Refuse(m)
  \/ \E c \in Cards, new \in Contents : InWorkflow /\ EditCard(c, new)
  \/ \E w \in Workflows :
       \/ \E b \in Boards : InWorkflow /\ SaveWorkflow(w, b)
       \/ InWorkflow /\ DeleteWorkflow(w)
       \/ \E b \in Boards : InWorkflow /\ EditBoard(w, b)

MCSpec == /\ MCInit
          /\ [][ClaimStep \/ DraftStep \/ WebhookStep \/ NumberingStep \/ WorkflowStep]_
                 <<part, vars, draftVars, webhookVars, numberingVars, workflowVars>>
          /\ WF_webhookVars(InWebhooks /\ Deliver) /\ WF_webhookVars(InWebhooks /\ Timer)

-----------------------------------------------------------------------------
(* Every part's variables stay in their types; the other properties come   *)
(* with their modules.                                                     *)
TypesOK == TypeOK /\ DraftsTypeOK /\ WebhooksTypeOK /\ NumberingTypeOK /\ WorkflowTypeOK
=============================================================================
