----------------------------- MODULE BotSystem -----------------------------
(***************************************************************************)
(* The bot behind Telegram's long polling: updates wait at Telegram until  *)
(* a getUpdates with a later offset confirms them, the bot handles a batch *)
(* one by one, and keeps its offset in memory.  A restart forgets the      *)
(* offset and the conversations, and is given every unconfirmed update     *)
(* again.                                                                  *)
(*                                                                         *)
(* An update of the inbox records whether the bot has tried it, whether    *)
(* its handler raised or did not find the fund it searched for, and which  *)
(* rows it has changed, over all its deliveries; the code keeps none of    *)
(* this.                                                                   *)
(***************************************************************************)
EXTENDS Bot, Sequences

CONSTANT MaxInbox    \* bound: updates waiting at Telegram

ASSUME InboxAssumption == MaxInbox \in Nat

VARIABLES
  inbox,       \* the updates Telegram holds, the oldest first
  fetched,     \* how many of them the current getUpdates returned
  handled      \* how many of those the bot has passed: self.offset

vars == <<wizard, searching, holdings, inbox, fetched, handled>>

Rows == Typed \X (Holdings \cup {None})

Deliveries == [user : Users, update : Updates, tried : BOOLEAN, failed : BOOLEAN,
               wrote : SUBSET Rows]

Init == BotInit /\ inbox = <<>> /\ fetched = 0 /\ handled = 0

Send(u, x) ==
  /\ Len(inbox) < MaxInbox
  /\ inbox' = Append(inbox, [user |-> u, update |-> x, tried |-> FALSE,
                            failed |-> FALSE, wrote |-> {}])
  /\ UNCHANGED <<wizard, searching, holdings, fetched, handled>>

Poll_ConfirmsAll ==
  /\ handled = fetched
  /\ Len(inbox) > 0
  /\ inbox' = <<>>
  /\ fetched' = 0
  /\ handled' = 0
  /\ UNCHANGED botVars

\* The loop over a batch has ended: the next getUpdates confirms what was
\* passed and returns the rest.
Poll ==
  /\ handled = fetched
  /\ handled + Len(inbox) > 0
  /\ inbox' = SubSeq(inbox, handled + 1, Len(inbox))
  /\ fetched' = Len(inbox) - handled
  /\ handled' = 0
  /\ UNCHANGED botVars

\* The confirmation gets through and its answer does not.
PollFails ==
  /\ handled = fetched
  /\ handled > 0
  /\ inbox' = SubSeq(inbox, handled + 1, Len(inbox))
  /\ fetched' = 0
  /\ handled' = 0
  /\ UNCHANGED botVars

Changed(u) == {<<s, holdings'[u][s]>> : s \in {t \in Typed : holdings'[u][t] # holdings[u][t]}}

Pass_Stays(i, fails) ==
  /\ inbox' = [inbox EXCEPT ![i].tried = TRUE, ![i].failed = @ \/ fails]
  /\ UNCHANGED <<handled, fetched>>

Pass(i, fails) ==
  /\ handled' = i
  /\ inbox' = [inbox EXCEPT ![i].tried = TRUE, ![i].failed = @ \/ fails,
                            ![i].wrote = @ \cup Changed(inbox[i].user)]
  /\ UNCHANGED fetched

HandleNext ==
  /\ handled < fetched
  /\ HandleUpdate(inbox[handled + 1].user, inbox[handled + 1].update)
  /\ Pass(handled + 1, SearchFails(inbox[handled + 1].user, inbox[handled + 1].update))

\* An exception is logged, and the update is not looked at again.
DropNext ==
  /\ handled < fetched
  /\ HandlerFails(inbox[handled + 1].user, inbox[handled + 1].update)
  /\ Pass(handled + 1, TRUE)

Restart ==
  /\ Forget
  /\ fetched' = 0
  /\ handled' = 0
  /\ UNCHANGED inbox

Next ==
  \/ \E u \in Users : \E x \in Updates : Send(u, x)
  \/ Poll
  \/ PollFails
  \/ HandleNext
  \/ DropNext
  \/ Restart

\* run_forever never stops polling.
Fairness == WF_vars(Poll) /\ WF_vars(HandleNext \/ DropNext)

Spec == Init /\ [][Next]_vars /\ Fairness

-----------------------------------------------------------------------------
TypeOK ==
  /\ wizard \in [Users -> Wizards \cup {None}]
  /\ searching \subseteq Users
  /\ holdings \in [Users -> [Typed -> Holdings \cup {None}]]
  /\ Len(inbox) <= MaxInbox /\ \A i \in 1..Len(inbox) : inbox[i] \in Deliveries
  /\ handled \in 0..fetched /\ fetched \in 0..Len(inbox)

\* What the wizard shows for confirmation is complete, whichever of the four
\* ways led there (telegram_bot.py:221-311).
SummaryIsComplete ==
  \A u \in Users : wizard[u] # None /\ wizard[u].step \in {"date", "current", "confirm"} =>
    None \notin {wizard[u].symbol, wizard[u].price, wizard[u].qty}

\* The updates of the user of update i, up to it, that the bot always answers
\* the same: no handler raised, no search failed, and no fix began from a row.
Repeatable(i) ==
  \A j \in 1..i : inbox[j].user = inbox[i].user =>
    ~inbox[j].failed /\ inbox[j].update.kind # "pfedit_fix"

\* An update delivered again after a restart changes a row to what it changed
\* it to before, although the conversation it belonged to is forgotten and the
\* rows are no longer what they were (telegram_bot.py:118, :166).  A fix is
\* another matter: delivered again, it begins from the row it has written.
ReplayWritesTheSame ==
  \A i \in 1..Len(inbox) : Repeatable(i) => Cardinality(inbox[i].wrote) <= 1

\* The offset moves before an update is handled, but reaches Telegram only with
\* the next getUpdates: no update is confirmed that was never tried
\* (telegram_bot.py:149-170).
ConfirmedWasTried ==
  [][\A i \in 1..(Len(inbox) - Len(inbox')) : inbox[i].tried]_vars

\* A row without a cost comes only from an old confirm button pressed while a
\* fix waits for its price, after the holding was deleted: everywhere else
\* the cost is known or kept (telegram_bot.py:313-342, service.py:124-150).
CostLostOnlyByFix ==
  [][\A u \in Users, s \in Typed :
       LET row == holdings'[u][s]
           old == holdings[u][s]
       IN  row # None /\ row.cost = None /\ row # old =>
             \/ old # None /\ old.cost = None
             \/ old = None /\ wizard[u].mode = "fix" /\ wizard[u].price = None]_vars

\* Every update is tried, or confirmed after an earlier incarnation tried it,
\* once the bot no longer restarts.
EveryUpdateTried ==
  <>[][~Restart]_vars =>
    \A k \in 1..MaxInbox : Len(inbox) >= k ~> (handled >= k \/ Len(inbox) < k)

\* The comment at telegram_bot.py:322 says a sale reduces the holding; a sale
\* of less than is held should leave the rest.
SaleKeepsRest ==
  [][\A u \in Users, s \in Typed :
       LET w == wizard[u] IN
       w # None /\ w.step = "confirm" /\ w.mode = "sell" /\ w.symbol = s
         /\ holdings[u][s] # None /\ holdings[u][s].qty > w.qty
         /\ holdings'[u][s] # holdings[u][s]
       => holdings'[u][s] # None]_vars

\* The holdings of a portfolio are funds, although /pf_add takes everything
\* after the command for the symbol (telegram_bot.py:733).
HoldingsAreFunds == \A u \in Users, s \in Typed \ Symbols : holdings[u][s] = None
=============================================================================
