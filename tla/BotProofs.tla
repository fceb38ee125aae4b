----------------------------- MODULE BotProofs -----------------------------
(***************************************************************************)
(* Proofs about the bot behind long polling, for any users, funds, numbers *)
(* and length of the inbox, and however often it is restarted.             *)
(***************************************************************************)
EXTENDS BotSystem, SequenceTheorems, FiniteSetTheorems, TLAPS

-----------------------------------------------------------------------------
(* The conversations.                                                      *)

BotTyped ==
  /\ wizard \in [Users -> Wizards \cup {None}]
  /\ searching \subseteq Users
  /\ holdings \in [Users -> [Typed -> Holdings \cup {None}]]

(* What a wizard has been told by the time it is at a step.  A fix is never *)
(* asked for its units: it began with them, every other wizard asks for     *)
(* them after the price.                                                    *)
Told(w) ==
  /\ w.mode = "fix" => w.qty # None
  /\ w.mode # "fix" /\ w.price = None => w.qty = None
  /\ w.step # "symbol" => w.symbol # None
  /\ w.step \notin {"symbol", "price"} => w.price # None
  /\ w.step \in {"date", "current", "confirm"} => w.qty # None

WizardsTold == \A u \in Users : wizard[u] # None => Told(wizard[u])

BotInv == BotTyped /\ WizardsTold

LEMMA UpdateFields ==
  ASSUME NEW x \in Updates
  PROVE  /\ x.kind \in {"name", "pf_add", "pf_del", "pfedit_buy", "pfedit_sell", "pfedit_fix"}
              => x.symbol \in Typed /\ x.symbol # None
         /\ x.kind = "number" => x.number \in Numbers /\ x.number # None
BY BotAssumption DEF Updates, Texts, Commands, Buttons

(* A wizard that is replaced by another whose answers are complete.        *)
LEMMA SetWizardKeeps ==
  ASSUME BotInv, NEW u \in Users, NEW w \in Wizards \cup {None}, w # None => Told(w), SetWizard(u, w)
  PROVE  BotInv'
<1>1. BotTyped'
  BY DEF BotInv, BotTyped, SetWizard
<1>2. WizardsTold'
  <2> SUFFICES ASSUME NEW v \in Users, wizard'[v] # None PROVE Told(wizard'[v])
    BY DEF WizardsTold, Told
  <2>1. CASE v = u
    BY <2>1 DEF BotInv, BotTyped, SetWizard
  <2>2. CASE v # u
    BY <2>2 DEF BotInv, BotTyped, WizardsTold, SetWizard
  <2> QED
    BY <2>1, <2>2
<1> QED
  BY <1>1, <1>2 DEF BotInv

LEMMA StutterKeeps == BotInv /\ UNCHANGED botVars => BotInv'
BY DEF BotInv, BotTyped, WizardsTold, Told, botVars

LEMMA NewWizardTold ==
  ASSUME NEW s \in Typed \cup {None}, NEW mode \in Modes, NEW q \in Numbers \cup {None},
         mode = "fix" <=> q # None
  PROVE  NewWizard(s, mode, q) \in Wizards /\ Told(NewWizard(s, mode, q))
BY DEF NewWizard, Wizards, Steps, Told

LEMMA AnswerKeeps ==
  ASSUME BotInv, NEW u \in Users, NEW t \in Updates, wizard[u] # None, HandleWizard(u, wizard[u], t)
  PROVE  BotInv'
<1> DEFINE w == wizard[u]
<1>1. w \in Wizards /\ Told(w)
  BY DEF BotInv, BotTyped, WizardsTold
<1>2. CASE w.step = "symbol" /\ WizardFundSearch(u, w, t)
  <2>1. CASE t.kind = "name" /\ SetWizard(u, [w EXCEPT !.symbol = t.symbol, !.step = "price"])
    <3> DEFINE x == [w EXCEPT !.symbol = t.symbol, !.step = "price"]
    <3>1. x \in Wizards /\ Told(x)
      BY <1>1, <2>1, UpdateFields DEF Wizards, Steps, Told
    <3> QED
      BY <2>1, <3>1, SetWizardKeeps
  <2> QED
    BY <1>2, <2>1, StutterKeeps DEF WizardFundSearch
<1>3. CASE w.step = "price" /\ AnswerPrice(u, w, t)
  <2> DEFINE step == IF w.mode = "fix" THEN "confirm" ELSE "qty"
             x == [w EXCEPT !.price = t.number, !.step = step]
  <2>1. t.number \in Numbers /\ t.number # None
    BY <1>3, UpdateFields DEF AnswerPrice, IsPositive
  <2>2. x \in Wizards /\ Told(x)
    BY <1>1, <1>3, <2>1 DEF Wizards, Steps, Told
  <2> QED
    BY <1>3, <2>2, SetWizardKeeps DEF AnswerPrice
<1>4. CASE w.step = "qty" /\ AnswerQty(u, w, t)
  <2> DEFINE x == [w EXCEPT !.qty = t.number, !.step = "date"]
  <2>1. t.number \in Numbers /\ t.number # None
    BY <1>4, UpdateFields DEF AnswerQty, IsPositive
  <2>2. x \in Wizards /\ Told(x)
    BY <1>1, <1>4, <2>1 DEF Wizards, Steps, Told
  <2> QED
    BY <1>4, <2>2, SetWizardKeeps DEF AnswerQty
<1>5. CASE w.step = "date" /\ AnswerDate(u, w)
  <2> DEFINE x == [w EXCEPT !.step = "current"]
  <2>1. x \in Wizards /\ Told(x)
    BY <1>1, <1>5 DEF Wizards, Steps, Told
  <2> QED
    BY <1>5, <2>1, SetWizardKeeps DEF AnswerDate
<1>6. CASE w.step = "current" /\ AnswerCurrent(u, w, t)
  <2> DEFINE x == [w EXCEPT !.step = "confirm"]
  <2>1. x \in Wizards /\ Told(x)
    BY <1>1, <1>6 DEF Wizards, Steps, Told
  <2> QED
    BY <1>6, <2>1, SetWizardKeeps DEF AnswerCurrent
<1>7. CASE w.step = "confirm" /\ SetWizard(u, None)
  BY <1>7, SetWizardKeeps
<1>8. CASE AskAgain(w, t)
  BY <1>8, StutterKeeps DEF AskAgain
<1> QED
  BY <1>2, <1>3, <1>4, <1>5, <1>6, <1>7, <1>8 DEF HandleWizard

(* A row is replaced by another, or by none; a symbol that is no row's      *)
(* changes nothing.                                                         *)
LEMMA RowTyped ==
  ASSUME BotTyped, NEW u \in Users, NEW s, NEW row \in Holdings \cup {None}
  PROVE  [holdings EXCEPT ![u][s] = row] \in [Users -> [Typed -> Holdings \cup {None}]]
<1> DEFINE rows == [holdings[u] EXCEPT ![s] = row]
<1>1. rows \in [Typed -> Holdings \cup {None}]
  BY DEF BotTyped
<1> QED
  BY <1>1 DEF BotTyped

LEMMA ConfirmKeeps ==
  ASSUME BotInv, NEW u \in Users, WizardConfirm(u)
  PROVE  BotInv'
<1> DEFINE w == wizard[u]
<1>1. holdings' \in [Users -> [Typed -> Holdings \cup {None}]]
  <2>1. CASE w # None /\ w.mode = "sell" /\ RemoveHolding(u, w.symbol)
    BY <2>1, RowTyped DEF BotInv, RemoveHolding
  <2>2. CASE w # None /\ w.qty # None /\ UpsertHolding(u, w.symbol, w.qty, w.price)
    <3> DEFINE s == w.symbol
               kept == IF w.price = None /\ holdings[u][s] # None THEN holdings[u][s].cost ELSE w.price
               row == [qty |-> w.qty, cost |-> kept]
    <3>1. w.qty \in Numbers /\ w.price \in Numbers \cup {None} /\ s \in Typed \cup {None}
      BY <2>2 DEF BotInv, BotTyped, Wizards
    <3>2. CASE s \in Typed
      <4>1. kept \in Numbers \cup {None}
        BY <3>1, <3>2 DEF BotInv, BotTyped, Holdings
      <4>2. row \in Holdings
        BY <3>1, <4>1 DEF Holdings
      <4> QED
        BY <2>2, <4>2, RowTyped DEF BotInv, UpsertHolding
    <3>3. CASE s \notin Typed
      <4>1. holdings' = [holdings EXCEPT ![u][s] = row]
        BY <2>2 DEF UpsertHolding
      <4>2. [holdings[u] EXCEPT ![s] = row] = holdings[u]
        BY <3>3 DEF BotInv, BotTyped
      <4> HIDE DEF row
      <4> QED
        BY <4>1, <4>2 DEF BotInv, BotTyped
    <3> QED
      BY <3>2, <3>3
  <2>3. CASE UNCHANGED holdings
    BY <2>3 DEF BotInv, BotTyped
  <2> QED
    BY <2>1, <2>2, <2>3 DEF WizardConfirm
<1>2. wizard' = [wizard EXCEPT ![u] = None] /\ searching' = searching
  BY DEF WizardConfirm
<1>3. BotTyped'
  BY <1>1, <1>2 DEF BotInv, BotTyped
<1>4. WizardsTold'
  BY <1>2 DEF BotInv, BotTyped, WizardsTold, Told
<1> QED
  BY <1>3, <1>4 DEF BotInv

LEMMA StartKeeps ==
  ASSUME BotInv, NEW u \in Users, NEW x \in Updates, StartWizard(u, x)
  PROVE  BotInv'
<1>1. ASSUME NEW s \in Typed \cup {None}, NEW mode \in Modes, NEW q \in Numbers \cup {None},
             mode = "fix" <=> q # None, SetWizard(u, NewWizard(s, mode, q))
      PROVE  BotInv'
  BY <1>1, NewWizardTold, SetWizardKeeps
<1>2. CASE x.kind = "pf_add_prompt" /\ SetWizard(u, NewWizard(None, "add", None))
  BY <1>1, <1>2 DEF Modes
<1>3. CASE x.kind = "pf_add" /\ SetWizard(u, NewWizard(x.symbol, "add", None))
  BY <1>1, <1>3, UpdateFields DEF Modes
<1>4. CASE x.kind = "pfedit_buy" /\ SetWizard(u, NewWizard(x.symbol, "buy_more", None))
  BY <1>1, <1>4, UpdateFields DEF Modes
<1>5. CASE x.kind = "pfedit_sell" /\ SetWizard(u, NewWizard(x.symbol, "sell", None))
  BY <1>1, <1>5, UpdateFields DEF Modes
<1>6. CASE /\ x.kind = "pfedit_fix"
           /\ holdings[u][x.symbol] # None
           /\ SetWizard(u, NewWizard(x.symbol, "fix", holdings[u][x.symbol].qty))
  <2>1. x.symbol \in Typed
    BY <1>6, UpdateFields
  <2>2. holdings[u][x.symbol].qty \in Numbers /\ holdings[u][x.symbol].qty # None
    BY <1>6, <2>1, BotAssumption DEF BotInv, BotTyped, Holdings
  <2> QED
    BY <1>1, <1>6, <2>1, <2>2 DEF Modes
<1> QED
  BY <1>2, <1>3, <1>4, <1>5, <1>6, StutterKeeps DEF StartWizard

LEMMA CommandKeeps ==
  ASSUME BotInv, NEW u \in Users, NEW x \in Updates, RunCommand(u, x)
  PROVE  BotInv'
<1>1. CASE /\ wizard' = [wizard EXCEPT ![u] = None]
           /\ searching' = searching \ {u}
           /\ UNCHANGED holdings
  BY <1>1 DEF BotInv, BotTyped, WizardsTold, Told
<1>2. CASE searching' = searching \cup {u} /\ UNCHANGED <<wizard, holdings>>
  BY <1>2 DEF BotInv, BotTyped, WizardsTold, Told
<1> QED
  BY <1>1, <1>2, StutterKeeps DEF RunCommand

LEMMA HandlerKeeps ==
  ASSUME BotInv, NEW u \in Users, NEW x \in Updates, HandleUpdate(u, x)
  PROVE  BotInv'
<1>1. CASE HandleText(u, x)
  <2>1. CASE FundAnalysisInput(u, x)
    BY <2>1 DEF FundAnalysisInput, BotInv, BotTyped, WizardsTold, Told
  <2> QED
    BY <1>1, <2>1, AnswerKeeps, StutterKeeps DEF HandleText
<1>2. CASE HandleCallback(u, x)
  <2>1. CASE RemoveHolding(u, x.symbol) /\ UNCHANGED <<wizard, searching>>
    <3>1. BotTyped'
      BY <2>1, RowTyped DEF RemoveHolding, BotInv, BotTyped
    <3>2. WizardsTold'
      BY <2>1 DEF BotInv, WizardsTold, Told
    <3> QED
      BY <3>1, <3>2 DEF BotInv
  <2> QED
    BY <1>2, <2>1, ConfirmKeeps DEF HandleCallback
<1> QED
  BY <1>1, <1>2, StartKeeps, CommandKeeps DEF HandleUpdate

LEMMA FailureKeeps ==
  ASSUME BotInv, NEW u \in Users, NEW x \in Updates, HandlerFails(u, x)
  PROVE  BotInv'
BY DEF HandlerFails, BotInv, BotTyped, WizardsTold, Told

-----------------------------------------------------------------------------
(* The inbox.                                                              *)

(* Every update the offset has passed was tried.                           *)
InboxInv ==
  /\ inbox \in Seq(Deliveries) /\ Len(inbox) <= MaxInbox
  /\ handled \in Nat /\ fetched \in Nat
  /\ handled <= fetched /\ fetched <= Len(inbox)
  /\ \A i \in 1..handled : inbox[i].tried

IInv == BotInv /\ InboxInv

LEMMA InitHolds == Init => IInv
<1> SUFFICES ASSUME Init PROVE IInv
  OBVIOUS
<1>1. BotInv
  BY DEF Init, BotInit, BotInv, BotTyped, WizardsTold, Told
<1>2. InboxInv
  BY InboxAssumption DEF Init, InboxInv
<1> QED
  BY <1>1, <1>2 DEF IInv

LEMMA SendKeeps ==
  ASSUME InboxInv, NEW u \in Users, NEW x \in Updates, Send(u, x)
  PROVE  InboxInv'
<1> DEFINE d == [user |-> u, update |-> x, tried |-> FALSE, failed |-> FALSE, wrote |-> {}]
<1>1. d \in Deliveries
  BY DEF Deliveries
<1>2. inbox' = Append(inbox, d)
  BY DEF Send
<1> HIDE DEF d
<1>3. inbox' \in Seq(Deliveries) /\ Len(inbox') = Len(inbox) + 1
  BY <1>1, <1>2 DEF InboxInv
<1>4. \A i \in 1..Len(inbox) : inbox'[i] = inbox[i]
  BY <1>1, <1>2 DEF InboxInv
<1>5. Len(inbox) < MaxInbox /\ handled' = handled /\ fetched' = fetched
  BY DEF Send
<1> QED
  BY <1>3, <1>4, <1>5, InboxAssumption DEF InboxInv

(* What remains after the passed updates are confirmed.                    *)
LEMMA RestTyped ==
  ASSUME InboxInv
  PROVE  LET rest == SubSeq(inbox, handled + 1, Len(inbox))
         IN  rest \in Seq(Deliveries) /\ Len(rest) = Len(inbox) - handled
<1>1. handled + 1 \in 1..Len(inbox) + 1 /\ Len(inbox) \in Nat
  BY DEF InboxInv
<1> QED
  BY <1>1, SubSeqProperties DEF InboxInv

LEMMA PassKeeps ==
  ASSUME BotTyped, BotTyped', InboxInv, handled < fetched, NEW fails \in BOOLEAN,
         Pass(handled + 1, fails)
  PROVE  InboxInv'
<1> DEFINE i == handled + 1
           e == inbox[i]
           d == [e EXCEPT !.tried = TRUE, !.failed = @ \/ fails, !.wrote = @ \cup Changed(e.user)]
<1>1. i \in 1..Len(inbox) /\ i <= fetched
  BY DEF InboxInv
<1>2. e \in Deliveries
  BY <1>1 DEF InboxInv
<1>3. Changed(e.user) \subseteq Rows
  BY <1>2 DEF Changed, Rows, BotTyped, Deliveries
<1>4. d \in Deliveries /\ d.tried
  <2> DEFINE failed == e.failed \/ fails
             wrote == e.wrote \cup Changed(e.user)
  <2>1. failed \in BOOLEAN
    BY <1>2 DEF Deliveries
  <2>2. wrote \in SUBSET Rows
    BY <1>2, <1>3 DEF Deliveries
  <2>3. d = [e EXCEPT !.tried = TRUE, !.failed = failed, !.wrote = wrote]
    OBVIOUS
  <2> HIDE DEF failed, wrote, e, d
  <2> QED
    BY <1>2, <2>1, <2>2, <2>3 DEF Deliveries
<1>5. inbox' = [inbox EXCEPT ![i] = d] /\ handled' = i /\ fetched' = fetched
  BY <1>1 DEF Pass, InboxInv
<1> HIDE DEF d, e
<1>6. inbox' \in Seq(Deliveries) /\ Len(inbox') = Len(inbox)
  BY <1>1, <1>4, <1>5 DEF InboxInv
<1>7. \A j \in 1..i : inbox'[j].tried
  BY <1>1, <1>4, <1>5 DEF InboxInv
<1> QED
  BY <1>1, <1>5, <1>6, <1>7 DEF InboxInv

LEMMA StepKeeps == IInv /\ [Next]_vars => IInv'
<1> SUFFICES ASSUME IInv, [Next]_vars PROVE IInv'
  OBVIOUS
<1> USE DEF IInv
<1>1. ASSUME NEW u \in Users, NEW x \in Updates, Send(u, x) PROVE IInv'
  BY <1>1, SendKeeps, StutterKeeps DEF Send, botVars
<1>2. ASSUME inbox' = SubSeq(inbox, handled + 1, Len(inbox)), handled' = 0,
             fetched' \in {0, Len(inbox) - handled}, UNCHANGED botVars
      PROVE  IInv'
  <2>1. inbox' \in Seq(Deliveries) /\ Len(inbox') = Len(inbox) - handled
    BY <1>2, RestTyped
  <2>2. Len(inbox) \in Nat /\ handled \in Nat /\ handled <= Len(inbox) /\ Len(inbox) <= MaxInbox
    BY DEF InboxInv
  <2>3. InboxInv'
    BY <1>2, <2>1, <2>2, InboxAssumption DEF InboxInv
  <2> QED
    BY <1>2, <2>3, StutterKeeps
<1>3. CASE Poll \/ PollFails
  BY <1>2, <1>3 DEF Poll, PollFails
<1>4. ASSUME handled < fetched
      PROVE  inbox[handled + 1].user \in Users /\ inbox[handled + 1].update \in Updates
  <2>1. handled + 1 \in 1..Len(inbox)
    BY <1>4 DEF InboxInv
  <2>2. inbox[handled + 1] \in Deliveries
    BY <2>1 DEF InboxInv
  <2> QED
    BY <2>2 DEF Deliveries
<1>5. CASE HandleNext
  <2>1. BotInv'
    BY <1>4, <1>5, HandlerKeeps DEF HandleNext
  <2> DEFINE fails == SearchFails(inbox[handled + 1].user, inbox[handled + 1].update)
  <2>2. fails \in BOOLEAN
    BY DEF SearchFails
  <2>3. handled < fetched /\ Pass(handled + 1, fails)
    BY <1>5 DEF HandleNext
  <2> HIDE DEF fails
  <2> QED
    BY <2>1, <2>2, <2>3, PassKeeps DEF BotInv
<1>6. CASE DropNext
  <2>1. BotInv'
    BY <1>4, <1>6, FailureKeeps DEF DropNext
  <2> QED
    BY <1>6, <2>1, PassKeeps DEF DropNext, BotInv
<1>7. CASE Restart
  <2>1. BotInv'
    BY <1>7 DEF Restart, Forget, BotInv, BotTyped, WizardsTold, Told
  <2>2. InboxInv'
    BY <1>7 DEF Restart, InboxInv
  <2> QED
    BY <2>1, <2>2
<1>8. CASE UNCHANGED vars
  <2>1. BotInv'
    BY <1>8, StutterKeeps DEF vars, botVars
  <2>2. InboxInv'
    BY <1>8 DEF vars, InboxInv
  <2> QED
    BY <2>1, <2>2
<1> QED
  BY <1>1, <1>3, <1>5, <1>6, <1>7, <1>8 DEF Next

(* The inductive invariant: conversations are told what their step needs,  *)
(* and what the offset has passed was tried.                                *)
THEOREM Invariance == Spec => []IInv
<1>1. Init => IInv
  BY InitHolds
<1>2. IInv /\ [Next]_vars => IInv'
  BY StepKeeps
<1> QED
  BY <1>1, <1>2, PTL DEF Spec

(* The type invariant of the conversations, the rows and the inbox.        *)
THEOREM TypeCorrect == Spec => []TypeOK
<1>1. IInv => TypeOK
  BY DEF IInv, BotInv, BotTyped, InboxInv, TypeOK
<1> QED
  BY <1>1, Invariance, PTL

(* telegram_bot.py:221-311: whichever way a wizard came to its summary, it  *)
(* has a fund, a price and a number of units.                               *)
THEOREM SummariesComplete == Spec => []SummaryIsComplete
<1>1. IInv => SummaryIsComplete
  BY DEF IInv, BotInv, WizardsTold, Told, SummaryIsComplete
<1> QED
  BY <1>1, Invariance, PTL

(* telegram_bot.py:149-170: no update is confirmed to Telegram that the bot *)
(* has not tried, through restarts and polls that fail.                     *)
THEOREM ConfirmedAreTried == Spec => ConfirmedWasTried
<1> DEFINE Confirms == \A i \in 1..(Len(inbox) - Len(inbox')) : inbox[i].tried
<1>1. IInv /\ IInv' /\ [Next]_vars => [Confirms]_vars
  <2> SUFFICES ASSUME IInv, Next PROVE Confirms
    OBVIOUS
  <2>1. CASE Poll \/ PollFails
    BY <2>1, RestTyped DEF Poll, PollFails, IInv, InboxInv
  <2>2. CASE Len(inbox') >= Len(inbox) /\ Len(inbox) \in Nat /\ Len(inbox') \in Nat
    BY <2>2
  <2>3. ASSUME NEW u \in Users, NEW x \in Updates, Send(u, x)
        PROVE  Len(inbox') = Len(inbox) + 1 /\ Len(inbox) \in Nat
    BY <2>3 DEF Send, IInv, InboxInv
  <2>4. CASE HandleNext \/ DropNext \/ Restart
    BY <2>4 DEF HandleNext, DropNext, Restart, Pass, IInv, InboxInv
  <2> QED
    BY <2>1, <2>2, <2>3, <2>4 DEF Next
<1> QED
  BY <1>1, Invariance, PTL DEF Spec, ConfirmedWasTried

(* telegram_bot.py:313-342, service.py:124-150: a cost is lost only when a  *)
(* fix that has not been told a price writes a row that was deleted.        *)
THEOREM CostsKept == Spec => CostLostOnlyByFix
<1> DEFINE LostByFix ==
      \A u \in Users, s \in Typed :
        LET row == holdings'[u][s]
            old == holdings[u][s]
        IN  row # None /\ row.cost = None /\ row # old =>
              \/ old # None /\ old.cost = None
              \/ old = None /\ wizard[u].mode = "fix" /\ wizard[u].price = None
<1>1. ASSUME BotInv, NEW v \in Users, WizardConfirm(v) PROVE LostByFix
  <2> DEFINE w == wizard[v]
  <2>1. CASE w # None /\ w.mode = "sell" /\ RemoveHolding(v, w.symbol)
    BY <1>1, <2>1 DEF RemoveHolding, BotInv, BotTyped
  <2>2. CASE w # None /\ w.qty # None /\ UpsertHolding(v, w.symbol, w.qty, w.price)
    <3> DEFINE kept == IF w.price = None /\ holdings[v][w.symbol] # None
                       THEN holdings[v][w.symbol].cost ELSE w.price
    <3>1. Told(w)
      BY <1>1, <2>2 DEF BotInv, WizardsTold
    <3>2. SUFFICES ASSUME NEW u \in Users, NEW s \in Typed, holdings'[u][s] # None,
                          holdings'[u][s].cost = None, holdings'[u][s] # holdings[u][s]
                   PROVE  \/ holdings[u][s] # None /\ holdings[u][s].cost = None
                          \/ /\ holdings[u][s] = None
                             /\ wizard[u].mode = "fix" /\ wizard[u].price = None
      OBVIOUS
    <3>3. holdings' = [holdings EXCEPT ![v][w.symbol] = [qty |-> w.qty, cost |-> kept]]
      BY <2>2 DEF UpsertHolding
    <3>4. u = v /\ s = w.symbol /\ holdings'[u][s] = [qty |-> w.qty, cost |-> kept]
      <4> HIDE DEF kept
      <4> QED
        BY <1>1, <3>2, <3>3 DEF BotInv, BotTyped
    <3> QED
      BY <2>2, <3>1, <3>2, <3>4 DEF Told
  <2> QED
    BY <1>1, <2>1, <2>2 DEF WizardConfirm
<1>2. ASSUME BotInv, NEW v \in Users, NEW x \in Updates, HandleUpdate(v, x) PROVE LostByFix
  <2>1. CASE RemoveHolding(v, x.symbol)
    BY <1>2, <2>1 DEF RemoveHolding, BotInv, BotTyped
  <2>2. CASE UNCHANGED holdings
    BY <2>2
  <2>3. RemoveHolding(v, x.symbol) \/ WizardConfirm(v) \/ UNCHANGED holdings
    BY <1>2 DEF HandleUpdate, HandleText, HandleWizard, WizardFundSearch, AnswerPrice, AnswerQty,
       AnswerDate, AnswerCurrent, AskAgain, SetWizard, FundAnalysisInput, StartWizard, RunCommand,
       HandleCallback, botVars
  <2> QED
    BY <1>1, <1>2, <2>1, <2>2, <2>3
<1>3. IInv /\ [Next]_vars => [LostByFix]_vars
  <2> SUFFICES ASSUME IInv, Next PROVE LostByFix
    OBVIOUS
  <2>1. CASE HandleNext
    <3>1. inbox[handled + 1] \in Deliveries
      <4>1. handled + 1 \in 1..Len(inbox)
        BY <2>1 DEF HandleNext, IInv, InboxInv
      <4> QED
        BY <4>1 DEF IInv, InboxInv
    <3> QED
      BY <1>2, <2>1, <3>1 DEF HandleNext, IInv, Deliveries
  <2>2. CASE UNCHANGED holdings
    BY <2>2
  <2> QED
    BY <2>1, <2>2 DEF Next, Send, Poll, PollFails, DropNext, HandlerFails, Restart, Forget, botVars
<1> QED
  BY <1>3, Invariance, PTL DEF Spec, CostLostOnlyByFix

-----------------------------------------------------------------------------
(* Deliveries again.  What a bot would do that knows of a conversation only *)
(* what still waits in the inbox is determined by the inbox: its wizards    *)
(* after each update are the replay below.  A bot that has just restarted   *)
(* does exactly this; one that was at work before the inbox began may have  *)
(* another wizard where the replay has none.                                *)

(* The wizard that an update leaves, when its handler neither raises nor    *)
(* searches in vain.                                                        *)
Answered(w, x) ==
  IF w = None \/ x \notin Texts THEN w
  ELSE IF w.step = "symbol" THEN
    IF x.kind = "name" THEN [w EXCEPT !.symbol = x.symbol, !.step = "price"] ELSE w
  ELSE IF w.step = "price" THEN
    IF IsPositive(x)
    THEN [w EXCEPT !.price = x.number, !.step = IF w.mode = "fix" THEN "confirm" ELSE "qty"] ELSE w
  ELSE IF w.step = "qty" THEN
    IF IsPositive(x) THEN [w EXCEPT !.qty = x.number, !.step = "date"] ELSE w
  ELSE IF w.step = "date" THEN [w EXCEPT !.step = "current"]
  ELSE IF w.step = "current" THEN
    IF x.kind = "number" THEN [w EXCEPT !.step = "confirm"] ELSE w
  ELSE None

After(w, x) ==
  CASE x.kind = "pf_add_prompt" -> NewWizard(None, "add", None)
    [] x.kind = "pf_add" -> NewWizard(x.symbol, "add", None)
    [] x.kind = "pfedit_buy" -> NewWizard(x.symbol, "buy_more", None)
    [] x.kind = "pfedit_sell" -> NewWizard(x.symbol, "sell", None)
    [] x.kind \in {"start", "pfwiz_confirm"} -> None
    [] OTHER -> Answered(w, x)

(* The row that an update changes, if it finds this wizard, which is none   *)
(* of a fix: it depends on nothing else, neither on the row that was there. *)
Writes(w, x) ==
  IF x.kind = "pf_del" THEN {<<x.symbol, None>>}
  ELSE IF x.kind # "pfwiz_confirm" \/ w = None THEN {}
  ELSE IF w.mode = "sell" THEN {<<w.symbol, None>>}
  ELSE {<<w.symbol, [qty |-> w.qty, cost |-> w.price]>>}

NotFix(w) == w = None \/ (w \in Wizards /\ w.mode # "fix")

KindsOf == {"number", "name", "other", "start", "fund_search", "pf_add_prompt", "show", "pf_add",
            "pf_del", "pfedit_buy", "pfedit_sell", "pfedit_fix", "pfwiz_confirm"}

LEMMA KindIs ==
  ASSUME NEW x \in Updates
  PROVE  x.kind \in KindsOf /\ (x \in Texts <=> x.kind \in {"number", "name", "other"})
BY DEF Updates, Texts, Commands, Buttons, KindsOf

(* The wizard after an update is determined by the wizard before it.        *)
LEMMA HandlerLeaves ==
  ASSUME BotInv, NEW u \in Users, NEW x \in Updates, HandleUpdate(u, x), x.kind # "pfedit_fix",
         ~SearchFails(u, x)
  PROVE  wizard'[u] = After(wizard[u], x)
<1> DEFINE w == wizard[u]
<1>1. w \in Wizards \cup {None} /\ (w # None => w.step \in Steps)
  BY DEF BotInv, BotTyped, Wizards
<1>2. ASSUME NEW v, SetWizard(u, v) PROVE wizard'[u] = v
  BY <1>2 DEF SetWizard, BotInv, BotTyped
<1>3. ASSUME wizard' = [wizard EXCEPT ![u] = None] PROVE wizard'[u] = None
  BY <1>3 DEF BotInv, BotTyped
<1>4. CASE x \in Texts
  <2>1. After(w, x) = Answered(w, x)
    BY <1>4, KindIs DEF After
  <2>2. CASE w = None
    <3>1. wizard' = wizard
      BY <1>4, <2>2, KindIs DEF HandleUpdate, HandleText, StartWizard, RunCommand, HandleCallback,
         FundAnalysisInput, botVars
    <3> QED
      BY <2>1, <2>2, <3>1 DEF Answered
  <2>3. CASE w # None
    <3>1. HandleWizard(u, w, x)
      BY <1>4, <2>3, KindIs DEF HandleUpdate, HandleText, StartWizard, RunCommand, HandleCallback
    <3>2. CASE w.step = "symbol"
      <4>1. WizardFundSearch(u, w, x)
        BY <3>1, <3>2 DEF HandleWizard, AskAgain
      <4>2. CASE x.kind = "name" /\ SetWizard(u, [w EXCEPT !.symbol = x.symbol, !.step = "price"])
        BY <1>2, <1>4, <2>1, <2>3, <3>2, <4>2 DEF Answered
      <4>3. CASE UNCHANGED botVars
        BY <1>4, <2>1, <2>3, <3>2, <4>3 DEF Answered, SearchFails, botVars
      <4> QED
        BY <4>1, <4>2, <4>3 DEF WizardFundSearch
    <3>3. CASE w.step = "price"
      <4>1. CASE IsPositive(x)
        <5>1. AnswerPrice(u, w, x)
          BY <3>1, <3>3, <4>1 DEF HandleWizard, AskAgain
        <5> QED
          BY <1>2, <1>4, <2>1, <2>3, <3>3, <4>1, <5>1 DEF Answered, AnswerPrice
      <4>2. CASE ~IsPositive(x)
        <5>1. UNCHANGED botVars
          BY <3>1, <3>3, <4>2 DEF HandleWizard, AskAgain, AnswerPrice
        <5> QED
          BY <1>4, <2>1, <2>3, <3>3, <4>2, <5>1 DEF Answered, botVars
      <4> QED
        BY <4>1, <4>2
    <3>4. CASE w.step = "qty"
      <4>1. CASE IsPositive(x)
        <5>1. AnswerQty(u, w, x)
          BY <3>1, <3>4, <4>1 DEF HandleWizard, AskAgain
        <5> QED
          BY <1>2, <1>4, <2>1, <2>3, <3>4, <4>1, <5>1 DEF Answered, AnswerQty
      <4>2. CASE ~IsPositive(x)
        <5>1. UNCHANGED botVars
          BY <3>1, <3>4, <4>2 DEF HandleWizard, AskAgain, AnswerQty
        <5> QED
          BY <1>4, <2>1, <2>3, <3>4, <4>2, <5>1 DEF Answered, botVars
      <4> QED
        BY <4>1, <4>2
    <3>5. CASE w.step = "date"
      <4>1. AnswerDate(u, w)
        BY <3>1, <3>5 DEF HandleWizard, AskAgain
      <4> QED
        BY <1>2, <1>4, <2>1, <2>3, <3>5, <4>1 DEF Answered, AnswerDate
    <3>6. CASE w.step = "current"
      <4>1. AnswerCurrent(u, w, x) \/ (x.kind # "number" /\ UNCHANGED botVars)
        BY <3>1, <3>6 DEF HandleWizard, AskAgain
      <4> QED
        BY <1>2, <1>4, <2>1, <2>3, <3>6, <4>1 DEF Answered, AnswerCurrent, botVars
    <3>7. CASE w.step = "confirm"
      <4>1. SetWizard(u, None)
        BY <3>1, <3>7 DEF HandleWizard, AskAgain
      <4> QED
        BY <1>2, <1>4, <2>1, <2>3, <3>7, <4>1 DEF Answered
    <3> QED
      BY <1>1, <2>3, <3>2, <3>3, <3>4, <3>5, <3>6, <3>7 DEF Steps
  <2> QED
    BY <2>2, <2>3
<1>5. CASE x.kind \in {"pf_add_prompt", "pf_add", "pfedit_buy", "pfedit_sell"}
  <2>1. StartWizard(u, x)
    BY <1>5, KindIs DEF HandleUpdate, HandleText, RunCommand, HandleCallback
  <2> QED
    BY <1>2, <1>5, <2>1 DEF StartWizard, After
<1>6. CASE x.kind \in {"start", "fund_search", "show"}
  <2>1. RunCommand(u, x)
    BY <1>6, KindIs DEF HandleUpdate, StartWizard, HandleCallback
  <2>2. x \notin Texts
    BY <1>6, KindIs
  <2> QED
    BY <1>3, <1>6, <2>1, <2>2 DEF RunCommand, After, Answered, botVars
<1>7. CASE x.kind \in {"pf_del", "pfwiz_confirm"}
  <2>1. HandleCallback(u, x)
    BY <1>7, KindIs DEF HandleUpdate, StartWizard, RunCommand
  <2>2. x \notin Texts
    BY <1>7, KindIs
  <2> QED
    BY <1>3, <1>7, <2>1, <2>2 DEF HandleCallback, WizardConfirm, After, Answered
<1> QED
  BY <1>4, <1>5, <1>6, <1>7, KindIs DEF KindsOf

(* The conversations of the others are left alone.                          *)
LEMMA OthersKept ==
  ASSUME BotInv, NEW u \in Users, NEW x \in Updates,
         HandleUpdate(u, x) \/ HandlerFails(u, x), NEW v \in Users, v # u
  PROVE  wizard'[v] = wizard[v]
<1>1. wizard' = wizard \/ \E w : wizard' = [wizard EXCEPT ![u] = w]
  BY DEF HandleUpdate, HandlerFails, HandleText, HandleWizard, WizardFundSearch, AnswerPrice, AnswerQty,
     AnswerDate, AnswerCurrent, AskAgain, SetWizard, FundAnalysisInput, StartWizard, RunCommand,
     HandleCallback, WizardConfirm, botVars
<1> QED
  BY <1>1 DEF BotInv, BotTyped

(* A fix is begun by its button alone.                                      *)
LEMMA AfterNotFix ==
  ASSUME NEW w, NotFix(w), NEW x \in Updates, x.kind # "pfedit_fix"
  PROVE  NotFix(After(w, x))
<1>1. CASE x.kind \in {"pf_add_prompt", "pf_add", "pfedit_buy", "pfedit_sell", "start", "pfwiz_confirm"}
  BY <1>1, UpdateFields DEF After, NotFix, NewWizard, Wizards, Steps, Modes
<1>2. CASE x.kind \notin {"pf_add_prompt", "pf_add", "pfedit_buy", "pfedit_sell", "start", "pfwiz_confirm"}
  <2>1. After(w, x) = Answered(w, x)
    BY <1>2 DEF After
  <2>2. CASE w = None \/ x \notin Texts
    BY <2>1, <2>2 DEF Answered
  <2>3. CASE w # None /\ x \in Texts
    <3>1. w \in Wizards /\ w.mode # "fix"
      BY <2>3 DEF NotFix
    <3>2. x.kind = "name" => x.symbol \in Typed
      BY UpdateFields
    <3>3. IsPositive(x) => x.number \in Numbers
      BY UpdateFields DEF IsPositive
    <3>4. CASE w.step = "symbol"
      BY <2>1, <2>3, <3>1, <3>2, <3>4 DEF Answered, NotFix, Wizards, Steps
    <3>5. CASE w.step = "price"
      BY <2>1, <2>3, <3>1, <3>3, <3>5 DEF Answered, NotFix, Wizards, Steps
    <3>6. CASE w.step = "qty"
      BY <2>1, <2>3, <3>1, <3>3, <3>6 DEF Answered, NotFix, Wizards, Steps
    <3>7. CASE w.step \notin {"symbol", "price", "qty"}
      BY <2>1, <2>3, <3>1, <3>7 DEF Answered, NotFix, Wizards, Steps
    <3> QED
      BY <3>4, <3>5, <3>6, <3>7
  <2> QED
    BY <2>2, <2>3
<1> QED
  BY <1>1, <1>2

(* An update that begins a conversation or ends one does so whatever the    *)
(* wizard was; the others do nothing where there is none.                   *)
LEMMA AfterNone ==
  ASSUME NEW w, NEW x \in Updates
  PROVE  After(None, x) \in {None, After(w, x)}
BY DEF After, Answered

LEMMA RowChanged ==
  ASSUME BotTyped, NEW u \in Users, NEW s, NEW row, holdings' = [holdings EXCEPT ![u][s] = row]
  PROVE  Changed(u) \subseteq {<<s, row>>}
<1>1. \A t \in Typed : holdings'[u][t] # holdings[u][t] => t = s /\ holdings'[u][t] = row
  BY DEF BotTyped
<1> QED
  BY <1>1 DEF Changed

(* The rows an update changes, in one delivery.                             *)
LEMMA HandlerWrites ==
  ASSUME BotInv, NEW u \in Users, NEW x \in Updates, HandleUpdate(u, x)
  PROVE  /\ \E r : Changed(u) \subseteq {r}
         /\ NotFix(wizard[u]) \/ x.kind = "pf_del" => Changed(u) \subseteq Writes(wizard[u], x)
<1> DEFINE w == wizard[u]
<1>1. \/ x.kind = "pf_del" /\ RemoveHolding(u, x.symbol)
      \/ x.kind = "pfwiz_confirm" /\ WizardConfirm(u)
      \/ UNCHANGED holdings
  BY DEF HandleUpdate, HandleText, HandleWizard, WizardFundSearch, AnswerPrice, AnswerQty,
     AnswerDate, AnswerCurrent, AskAgain, SetWizard, FundAnalysisInput, StartWizard, RunCommand,
     HandleCallback, botVars
<1>2. CASE UNCHANGED holdings
  BY <1>2 DEF Changed
<1>3. CASE x.kind = "pf_del" /\ RemoveHolding(u, x.symbol)
  <2>1. Changed(u) \subseteq {<<x.symbol, None>>}
    BY <1>3, RowChanged DEF RemoveHolding, BotInv
  <2> QED
    BY <1>3, <2>1 DEF Writes
<1>4. CASE x.kind = "pfwiz_confirm" /\ WizardConfirm(u)
  <2>1. CASE w # None /\ w.mode = "sell" /\ RemoveHolding(u, w.symbol)
    <3>1. Changed(u) \subseteq {<<w.symbol, None>>}
      BY <2>1, RowChanged DEF RemoveHolding, BotInv
    <3> QED
      BY <1>4, <2>1, <3>1 DEF Writes
  <2>2. CASE w # None /\ w.mode # "sell" /\ w.qty # None /\ UpsertHolding(u, w.symbol, w.qty, w.price)
    <3> DEFINE kept == IF w.price = None /\ holdings[u][w.symbol] # None
                       THEN holdings[u][w.symbol].cost ELSE w.price
               row == [qty |-> w.qty, cost |-> kept]
    <3>1. holdings' = [holdings EXCEPT ![u][w.symbol] = row]
      BY <2>2 DEF UpsertHolding
    <3>2. NotFix(w) => kept = w.price
      BY <2>2 DEF NotFix, BotInv, WizardsTold, Told
    <3> HIDE DEF kept
    <3>3. NotFix(w) => Writes(w, x) = {<<w.symbol, row>>}
      BY <1>4, <2>2, <3>2 DEF Writes
    <3> HIDE DEF row
    <3>4. Changed(u) \subseteq {<<w.symbol, row>>}
      BY <3>1, RowChanged DEF BotInv
    <3> QED
      BY <1>4, <3>3, <3>4
  <2> QED
    BY <1>2, <1>4, <2>1, <2>2 DEF WizardConfirm
<1> QED
  BY <1>1, <1>2, <1>3, <1>4

(* The updates of a user, up to one of the inbox, that the bot always       *)
(* answers the same.                                                        *)
Steady(u, k) ==
  \A j \in 1..k : inbox[j].user = u =>
    ~inbox[j].failed /\ inbox[j].update.kind # "pfedit_fix"

(* The replay of the first n updates, those that were tried: the bot has    *)
(* passed some of them in this incarnation, and its wizards are those of    *)
(* the replay, or older than the inbox where the replay has none; only a    *)
(* bot that has passed all of them can have such.  What is behind the n     *)
(* will be fetched for the first time.                                      *)
PathOf(n, path) ==
  /\ \A u \in Users : path[0][u] = None
  /\ \A i \in 1..n : \A u \in Users :
       path[i][u] = IF inbox[i].user = u THEN After(path[i - 1][u], inbox[i].update)
                    ELSE path[i - 1][u]
  /\ \A i \in 0..n : \A u \in Users : Steady(u, i) => NotFix(path[i][u])

RowsOf(n, path) ==
  /\ \A i \in 1..n : \A u \in Users : inbox[i].user = u /\ Steady(u, i) =>
       /\ \E r : inbox[i].wrote \subseteq {r}
       /\ path[i - 1][u] # None \/ inbox[i].update.kind = "pf_del" =>
            inbox[i].wrote \subseteq Writes(path[i - 1][u], inbox[i].update)
  /\ \A i \in 1..Len(inbox) : i > n => inbox[i].wrote = {}

PresentIs(n, path) ==
  \A u \in Users : Steady(u, handled) =>
    /\ path[handled][u] # None => wizard[u] = path[handled][u]
    /\ handled < n => wizard[u] = path[handled][u]

ReplayOf(n, path) ==
  /\ handled <= n /\ n <= Len(inbox)
  /\ fetched = 0 \/ n <= fetched
  /\ PathOf(n, path) /\ RowsOf(n, path) /\ PresentIs(n, path)

Replayed == \E n \in Nat : \E path : ReplayOf(n, path)

RInv == IInv /\ Replayed

LEMMA NothingReplayed ==
  ASSUME IInv', handled' = 0, \A i \in 1..Len(inbox') : inbox'[i].wrote = {}
  PROVE  Replayed'
<1>1. 0 \in Nat /\ Len(inbox') \in Nat /\ fetched' \in Nat
  BY DEF IInv, InboxInv
<1>2. PICK blank : blank = [k \in {0} |-> [u \in Users |-> None]]
  OBVIOUS
<1>3. PathOf(0, blank)'
  BY <1>2 DEF PathOf, NotFix
<1>4. RowsOf(0, blank)'
  BY DEF RowsOf
<1>5. PresentIs(0, blank)'
  BY <1>2 DEF PresentIs
<1>6. ReplayOf(0, blank)'
  BY <1>1, <1>3, <1>4, <1>5 DEF ReplayOf
<1> QED
  BY <1>1, <1>6 DEF Replayed

LEMMA NothingAtFirst == Init => Replayed
<1> SUFFICES ASSUME Init PROVE Replayed
  OBVIOUS
<1>1. handled = 0 /\ fetched = 0 /\ inbox = << >> /\ 0 \in Nat
  BY DEF Init
<1>2. PICK blank : blank = [k \in {0} |-> [u \in Users |-> None]]
  OBVIOUS
<1>3. PathOf(0, blank)
  BY <1>2 DEF PathOf, NotFix
<1>4. RowsOf(0, blank) /\ PresentIs(0, blank)
  BY <1>1, <1>2 DEF RowsOf, PresentIs
<1>5. ReplayOf(0, blank)
  BY <1>1, <1>3, <1>4 DEF ReplayOf
<1> QED
  BY <1>1, <1>5 DEF Replayed

(* One update is passed: for the first time, when it is the next of the     *)
(* replay, or again.                                                        *)
LEMMA PassReplayed ==
  ASSUME RInv, IInv', NEW i, i = handled + 1, handled < fetched, NEW fails \in BOOLEAN,
         Pass(i, fails), NEW u \in Users, NEW x \in Updates,
         u = inbox[i].user, x = inbox[i].update,
         \A v \in Users : v # u => wizard'[v] = wizard[v],
         ~fails /\ x.kind # "pfedit_fix" => wizard'[u] = After(wizard[u], x),
         ~fails => \E r : Changed(u) \subseteq {r},
         ~fails /\ (NotFix(wizard[u]) \/ x.kind = "pf_del") => Changed(u) \subseteq Writes(wizard[u], x)
  PROVE  Replayed'
<1>1. PICK n \in Nat : \E path : ReplayOf(n, path)
  BY DEF RInv, Replayed
<1>2. PICK path : ReplayOf(n, path)
  BY <1>1
<1> DEFINE wrote == inbox[i].wrote \cup Changed(u)
<1>3. i \in 1..Len(inbox) /\ i <= fetched /\ handled \in Nat /\ fetched \in Nat
      /\ Len(inbox) \in Nat /\ handled <= n /\ n <= Len(inbox) /\ n <= fetched
  BY <1>2 DEF RInv, IInv, InboxInv, ReplayOf
<1>4. inbox[i] \in Deliveries
  BY <1>3 DEF RInv, IInv, InboxInv
<1>5. /\ handled' = i /\ fetched' = fetched /\ Len(inbox') = Len(inbox)
      /\ \A j \in 1..Len(inbox) : /\ inbox'[j].user = inbox[j].user
                                  /\ inbox'[j].update = inbox[j].update
                                  /\ j # i => inbox'[j] = inbox[j]
      /\ inbox'[i].wrote = wrote
      /\ inbox'[i].failed = (inbox[i].failed \/ fails)
  <2> DEFINE failed == inbox[i].failed \/ fails
             d == [inbox[i] EXCEPT !.tried = TRUE, !.failed = failed, !.wrote = wrote]
  <2>1. failed \in BOOLEAN
    BY <1>4 DEF Deliveries
  <2>2. inbox' = [inbox EXCEPT ![i] = d] /\ handled' = i /\ fetched' = fetched
    BY <1>3 DEF Pass, RInv, IInv, InboxInv
  <2> HIDE DEF failed, wrote
  <2>3. d.user = inbox[i].user /\ d.update = inbox[i].update /\ d.wrote = wrote /\ d.failed = failed
    BY <1>4 DEF Deliveries
  <2> HIDE DEF d
  <2>4. Len(inbox') = Len(inbox) /\ inbox'[i] = d
        /\ \A j \in 1..Len(inbox) : j # i => inbox'[j] = inbox[j]
    BY <1>3, <2>2 DEF RInv, IInv, InboxInv
  <2> QED
    BY <2>2, <2>3, <2>4 DEF failed
<1> HIDE DEF wrote
(* What is steady after the step was steady before, and the step did not    *)
(* fail.                                                                    *)
<1>6. ASSUME NEW v \in Users, NEW k \in 0..Len(inbox), Steady(v, k)'
      PROVE  Steady(v, k) /\ (v = u /\ i <= k => ~fails /\ x.kind # "pfedit_fix")
  <2>1. \A j \in 1..k : inbox'[j].user = v => ~inbox'[j].failed /\ inbox'[j].update.kind # "pfedit_fix"
    BY <1>6 DEF Steady
  <2>2. \A j \in 1..k : j \in 1..Len(inbox)
    BY <1>3
  <2>3. Steady(v, k)
    BY <1>5, <2>1, <2>2 DEF Steady
  <2>4. ASSUME v = u, i <= k PROVE ~fails /\ x.kind # "pfedit_fix"
    <3>1. i \in 1..k
      BY <1>3, <2>4
    <3> QED
      BY <1>3, <1>5, <2>1, <2>4, <3>1
  <2> QED
    BY <2>3, <2>4
<1>7. ASSUME NEW v \in Users, NEW k \in 1..Len(inbox), Steady(v, k) PROVE Steady(v, k - 1)
  BY <1>7 DEF Steady
<1>8. i - 1 = handled /\ i \in Nat
  BY <1>3
<1>9. inbox[i].user = u /\ inbox[i].update = x
  OBVIOUS
(* The wizard after the step is that of the replay.                         *)
<1>10. ASSUME NEW next, \A v \in Users : next[v] = IF v = u THEN After(path[handled][u], x)
                                                   ELSE path[handled][v],
              NEW v \in Users, Steady(v, i)'
       PROVE  /\ next[v] # None => wizard'[v] = next[v]
              /\ handled < n => wizard'[v] = next[v]
  <2>1. Steady(v, i) /\ (v = u => ~fails /\ x.kind # "pfedit_fix")
    BY <1>3, <1>6, <1>8, <1>10
  <2>2. Steady(v, handled)
    BY <1>3, <1>7, <1>8, <2>1
  <2>3. /\ path[handled][v] # None => wizard[v] = path[handled][v]
        /\ handled < n => wizard[v] = path[handled][v]
    BY <1>2, <2>2 DEF ReplayOf, PresentIs
  <2>4. CASE v # u
    BY <1>10, <2>3, <2>4
  <2>5. CASE v = u
    <3>1. wizard'[u] = After(wizard[u], x)
      BY <2>1, <2>5
    <3>2. CASE wizard[u] = path[handled][u]
      BY <1>10, <2>5, <3>1, <3>2
    <3>3. CASE wizard[u] # path[handled][u]
      <4>1. path[handled][u] = None /\ ~(handled < n)
        BY <2>3, <2>5, <3>3
      <4>2. After(None, x) \in {None, After(wizard[u], x)}
        BY AfterNone
      <4> QED
        BY <1>10, <2>5, <3>1, <4>1, <4>2
    <3> QED
      BY <3>2, <3>3
  <2> QED
    BY <2>4, <2>5
(* The rows it changes are those of the replay, where the replay has a      *)
(* wizard.                                                                  *)
<1>11. ASSUME Steady(u, i)'
       PROVE  /\ \E r : Changed(u) \subseteq {r}
              /\ path[handled][u] # None \/ handled < n \/ x.kind = "pf_del" =>
                   Changed(u) \subseteq Writes(path[handled][u], x)
  <2>1. Steady(u, i) /\ ~fails
    BY <1>3, <1>6, <1>8, <1>11
  <2>2. Steady(u, handled)
    BY <1>3, <1>7, <1>8, <2>1
  <2>3. /\ path[handled][u] # None => wizard[u] = path[handled][u]
        /\ handled < n => wizard[u] = path[handled][u]
        /\ NotFix(path[handled][u])
    BY <1>2, <1>3, <2>2 DEF ReplayOf, PresentIs, PathOf
  <2>4. x.kind = "pf_del" => Writes(path[handled][u], x) = Writes(wizard[u], x)
    BY DEF Writes
  <2> QED
    BY <2>1, <2>3, <2>4
<1>12. CASE handled < n
  <2>1. i \in 1..n
    BY <1>3, <1>8, <1>12
  <2>2. PathOf(n, path)'
    <3>1. \A j \in 1..n : j \in 1..Len(inbox)
      BY <1>3
    <3>2. \A j \in 0..n : j \in 0..Len(inbox)
      BY <1>3
    <3>3. \A j \in 0..n : \A v \in Users : Steady(v, j)' => NotFix(path[j][v])
      BY <1>2, <1>6, <3>2 DEF ReplayOf, PathOf
    <3>4. \A j \in 1..n : \A v \in Users :
            path[j][v] = IF inbox'[j].user = v THEN After(path[j - 1][v], inbox'[j].update)
                         ELSE path[j - 1][v]
      BY <1>2, <1>5, <3>1 DEF ReplayOf, PathOf
    <3>5. \A v \in Users : path[0][v] = None
      BY <1>2 DEF ReplayOf, PathOf
    <3> QED
      BY <3>3, <3>4, <3>5 DEF PathOf
  <2>3. RowsOf(n, path)'
    <3>1. ASSUME NEW j \in 1..n, NEW v \in Users, inbox[j].user = v, Steady(v, j)'
          PROVE  /\ \E r : inbox'[j].wrote \subseteq {r}
                 /\ path[j - 1][v] # None \/ inbox[j].update.kind = "pf_del" =>
                      inbox'[j].wrote \subseteq Writes(path[j - 1][v], inbox[j].update)
      <4>1. j \in 1..Len(inbox) /\ j \in 0..Len(inbox)
        BY <1>3
      <4>2. Steady(v, j)
        BY <1>6, <3>1, <4>1
      <4>3. /\ \E r : inbox[j].wrote \subseteq {r}
            /\ path[j - 1][v] # None \/ inbox[j].update.kind = "pf_del" =>
                 inbox[j].wrote \subseteq Writes(path[j - 1][v], inbox[j].update)
        BY <1>2, <3>1, <4>2 DEF ReplayOf, RowsOf
      <4>4. CASE j # i
        BY <1>5, <4>1, <4>3, <4>4
      <4>5. CASE j = i
        <5>1. v = u /\ Steady(u, i)'
          BY <1>9, <3>1, <4>5
        <5>2. Changed(u) \subseteq Writes(path[handled][u], x)
          BY <1>11, <1>12, <5>1
        <5>3. Writes(path[handled][u], x) = {} \/ \E r : Writes(path[handled][u], x) = {r}
          BY DEF Writes
        <5>4. path[handled][u] = None /\ x.kind # "pf_del" => Writes(path[handled][u], x) = {}
          BY DEF Writes
        <5>5. inbox'[i].wrote = inbox[i].wrote \cup Changed(u)
          BY <1>5 DEF wrote
        <5>6. CASE path[handled][u] # None \/ x.kind = "pf_del"
          <6>1. inbox'[i].wrote \subseteq Writes(path[handled][u], x)
            BY <1>8, <1>9, <4>3, <4>5, <5>1, <5>2, <5>5, <5>6
          <6> QED
            BY <1>8, <1>9, <4>5, <5>1, <5>3, <6>1
        <5>7. CASE path[handled][u] = None /\ x.kind # "pf_del"
          <6>1. inbox'[i].wrote = inbox[i].wrote
            BY <5>2, <5>4, <5>5, <5>7
          <6> QED
            BY <1>8, <1>9, <4>3, <4>5, <5>1, <5>7, <6>1
        <5> QED
          BY <5>6, <5>7
      <4> QED
        BY <4>4, <4>5
    <3>2. \A j \in 1..Len(inbox) : j > n => inbox'[j].wrote = {}
      <4>1. \A j \in 1..Len(inbox) : j > n => j # i
        BY <2>1
      <4> QED
        BY <1>2, <1>5, <4>1 DEF ReplayOf, RowsOf
    <3>3. \A j \in 1..n : inbox'[j].user = inbox[j].user /\ inbox'[j].update = inbox[j].update
      BY <1>3, <1>5
    <3>4. \A j \in 1..n : \A v \in Users : inbox'[j].user = v /\ Steady(v, j)' =>
            /\ \E r : inbox'[j].wrote \subseteq {r}
            /\ path[j - 1][v] # None \/ inbox'[j].update.kind = "pf_del" =>
                 inbox'[j].wrote \subseteq Writes(path[j - 1][v], inbox'[j].update)
      BY <3>1, <3>3
    <3> QED
      BY <1>5, <3>2, <3>4 DEF RowsOf
  <2>4. PresentIs(n, path)'
    <3>1. \A v \in Users : path[i][v] = IF v = u THEN After(path[handled][u], x) ELSE path[handled][v]
      BY <1>2, <1>8, <1>9, <2>1 DEF ReplayOf, PathOf
    <3>2. \A v \in Users : Steady(v, handled)' => Steady(v, i)'
      BY <1>5 DEF Steady
    <3> QED
      BY <1>5, <1>10, <1>12, <3>1, <3>2 DEF PresentIs
  <2>5. ReplayOf(n, path)'
    BY <1>3, <1>5, <1>8, <1>12, <2>2, <2>3, <2>4 DEF ReplayOf
  <2> QED
    BY <2>5 DEF Replayed
<1>13. CASE handled = n
  <2> DEFINE next == [v \in Users |-> IF v = u THEN After(path[n][u], x) ELSE path[n][v]]
  <2>1. PICK longer : longer = [k \in 0..i |-> IF k = i THEN next ELSE path[k]]
    OBVIOUS
  <2>2. i = n + 1 /\ i \in 1..i /\ n \in 0..n
    BY <1>8, <1>13
  <2>3. longer[i] = next /\ \A k \in 0..n : longer[k] = path[k]
    BY <2>1, <2>2
  <2>4. \A v \in Users : longer[i][v] = IF v = u THEN After(path[n][u], x) ELSE path[n][v]
    BY <2>3
  <2> HIDE DEF next
  <2>5. PathOf(i, longer)'
    <3>1. \A j \in 0..n : j \in 0..Len(inbox)
      BY <1>3
    <3>2. ASSUME NEW j \in 0..i, NEW v \in Users, Steady(v, j)' PROVE NotFix(longer[j][v])
      <4>1. CASE j \in 0..n
        BY <1>2, <1>6, <2>3, <3>1, <3>2, <4>1 DEF ReplayOf, PathOf
      <4>2. CASE j = i
        <5>1. Steady(v, i) /\ (v = u => x.kind # "pfedit_fix")
          BY <1>3, <1>6, <1>8, <3>2, <4>2
        <5>2. Steady(v, n)
          BY <1>3, <1>7, <1>8, <1>13, <5>1
        <5>3. NotFix(path[n][v])
          BY <1>2, <2>2, <5>2 DEF ReplayOf, PathOf
        <5> QED
          BY <2>4, <4>2, <5>1, <5>3, AfterNotFix
      <4> QED
        BY <2>2, <4>1, <4>2
    <3>3. ASSUME NEW j \in 1..i, NEW v \in Users
          PROVE  longer[j][v] = IF inbox'[j].user = v THEN After(longer[j - 1][v], inbox'[j].update)
                                ELSE longer[j - 1][v]
      <4>1. j \in 1..Len(inbox) /\ j - 1 \in 0..n
        BY <1>3, <2>2
      <4>2. inbox'[j].user = inbox[j].user /\ inbox'[j].update = inbox[j].update
        BY <1>5, <4>1
      <4>3. longer[j - 1] = path[j - 1]
        BY <2>3, <4>1
      <4>4. CASE j \in 1..n
        BY <1>2, <2>3, <4>2, <4>3, <4>4 DEF ReplayOf, PathOf
      <4>5. CASE j = i
        BY <1>8, <1>9, <1>13, <2>4, <4>2, <4>3, <4>5
      <4> QED
        BY <2>2, <4>4, <4>5
    <3>4. \A v \in Users : longer[0][v] = None
      BY <1>2, <2>3, <2>2 DEF ReplayOf, PathOf
    <3> QED
      BY <3>2, <3>3, <3>4 DEF PathOf
  <2>6. RowsOf(i, longer)'
    <3>1. ASSUME NEW j \in 1..i, NEW v \in Users, inbox'[j].user = v, Steady(v, j)'
          PROVE  /\ \E r : inbox'[j].wrote \subseteq {r}
                 /\ longer[j - 1][v] # None \/ inbox'[j].update.kind = "pf_del" =>
                      inbox'[j].wrote \subseteq Writes(longer[j - 1][v], inbox'[j].update)
      <4>1. j \in 1..Len(inbox) /\ j - 1 \in 0..n /\ j \in 0..Len(inbox)
        BY <1>3, <2>2
      <4>2. inbox'[j].user = inbox[j].user /\ inbox'[j].update = inbox[j].update
            /\ (j # i => inbox'[j] = inbox[j])
        BY <1>5, <4>1
      <4>3. longer[j - 1] = path[j - 1]
        BY <2>3, <4>1
      <4>4. CASE j \in 1..n
        <5>1. Steady(v, j) /\ j # i
          BY <1>6, <2>2, <3>1, <4>1, <4>4
        <5> QED
          BY <1>2, <3>1, <4>2, <4>3, <4>4, <5>1 DEF ReplayOf, RowsOf
      <4>5. CASE j = i
        <5>1. v = u /\ Steady(u, i)'
          BY <1>9, <3>1, <4>2, <4>5
        <5>2. inbox[i].wrote = {}
          BY <1>2, <1>3, <2>2 DEF ReplayOf, RowsOf
        <5>3. inbox'[i].wrote = Changed(u)
          BY <1>5, <5>2 DEF wrote
        <5> QED
          BY <1>8, <1>9, <1>11, <1>13, <4>2, <4>3, <4>5, <5>1, <5>3
      <4>6. j \in 1..n \/ j = i
        BY <2>2
      <4> QED
        BY <4>4, <4>5, <4>6
    <3>2. \A j \in 1..Len(inbox) : j > i => inbox'[j].wrote = {}
      BY <1>2, <1>5, <2>2 DEF ReplayOf, RowsOf
    <3> QED
      BY <1>5, <3>1, <3>2 DEF RowsOf
  <2>7. PresentIs(i, longer)'
    <3>1. \A v \in Users : Steady(v, handled)' => Steady(v, i)'
      BY <1>5 DEF Steady
    <3>2. ~(i < i)
      BY <1>8
    <3>3. \A v \in Users : longer[i][v] = IF v = u THEN After(path[handled][u], x) ELSE path[handled][v]
      BY <1>13, <2>4
    <3>4. \A v \in Users : Steady(v, i)' /\ longer[i][v] # None => wizard'[v] = longer[i][v]
      BY <1>10, <3>3
    <3> QED
      BY <1>5, <3>1, <3>2, <3>4 DEF PresentIs
  <2>8. ReplayOf(i, longer)'
    BY <1>3, <1>5, <1>8, <2>5, <2>6, <2>7 DEF ReplayOf
  <2> QED
    BY <1>8, <2>8 DEF Replayed
<1> QED
  BY <1>3, <1>12, <1>13

(* A step that leaves the updates that wait as they are, and perhaps adds   *)
(* one behind them.                                                         *)
LEMMA LongerReplayed ==
  ASSUME RInv, IInv', Len(inbox') >= Len(inbox),
         \A j \in 1..Len(inbox) : inbox'[j] = inbox[j],
         \A j \in 1..Len(inbox') : j > Len(inbox) => inbox'[j].wrote = {},
         fetched' \in {0, fetched, Len(inbox)},
         \/ handled' = handled /\ UNCHANGED wizard
         \/ handled' = 0 /\ \A u \in Users : wizard'[u] = None
  PROVE  Replayed'
<1>1. PICK n \in Nat : \E path : ReplayOf(n, path)
  BY DEF RInv, Replayed
<1>2. PICK path : ReplayOf(n, path)
  BY <1>1
<1>3. Len(inbox) \in Nat /\ Len(inbox') \in Nat /\ handled \in Nat /\ fetched \in Nat
      /\ handled <= n /\ n <= Len(inbox)
  BY <1>2 DEF RInv, IInv, InboxInv, ReplayOf
<1>4. \A k \in 0..Len(inbox) : \A u \in Users : Steady(u, k)' => Steady(u, k)
  <2> SUFFICES ASSUME NEW k \in 0..Len(inbox), NEW u \in Users, Steady(u, k)' PROVE Steady(u, k)
    OBVIOUS
  <2>1. \A j \in 1..k : j \in 1..Len(inbox)
    BY <1>3
  <2> QED
    BY <2>1 DEF Steady
<1>5. (\A j \in 1..n : j \in 1..Len(inbox)) /\ (\A j \in 0..n : j \in 0..Len(inbox))
  BY <1>3
<1>6. PathOf(n, path)'
  <2>1. \A j \in 1..n : \A u \in Users :
          path[j][u] = IF inbox'[j].user = u THEN After(path[j - 1][u], inbox'[j].update)
                       ELSE path[j - 1][u]
    BY <1>2, <1>5 DEF ReplayOf, PathOf
  <2>2. \A j \in 0..n : \A u \in Users : Steady(u, j)' => NotFix(path[j][u])
    BY <1>2, <1>4, <1>5 DEF ReplayOf, PathOf
  <2>3. \A u \in Users : path[0][u] = None
    BY <1>2 DEF ReplayOf, PathOf
  <2> QED
    BY <2>1, <2>2, <2>3 DEF PathOf
<1>7. RowsOf(n, path)'
  <2>1. \A j \in 1..n : \A u \in Users : inbox'[j].user = u /\ Steady(u, j)' =>
          /\ \E r : inbox'[j].wrote \subseteq {r}
          /\ path[j - 1][u] # None \/ inbox'[j].update.kind = "pf_del" =>
               inbox'[j].wrote \subseteq Writes(path[j - 1][u], inbox'[j].update)
    <3> SUFFICES ASSUME NEW j \in 1..n, NEW u \in Users, inbox'[j].user = u, Steady(u, j)'
                 PROVE  /\ \E r : inbox'[j].wrote \subseteq {r}
                        /\ path[j - 1][u] # None \/ inbox'[j].update.kind = "pf_del" =>
                             inbox'[j].wrote \subseteq Writes(path[j - 1][u], inbox'[j].update)
      OBVIOUS
    <3>1. inbox'[j] = inbox[j] /\ j \in 0..Len(inbox)
      BY <1>3, <1>5
    <3>2. Steady(u, j)
      BY <1>4, <3>1
    <3> QED
      BY <1>2, <3>1, <3>2 DEF ReplayOf, RowsOf
  <2>2. \A j \in 1..Len(inbox') : j > n => inbox'[j].wrote = {}
    <3> SUFFICES ASSUME NEW j \in 1..Len(inbox'), j > n PROVE inbox'[j].wrote = {}
      OBVIOUS
    <3>1. CASE j > Len(inbox)
      BY <3>1
    <3>2. CASE j \in 1..Len(inbox)
      BY <1>2, <3>2 DEF ReplayOf, RowsOf
    <3> QED
      BY <1>3, <3>1, <3>2
  <2> QED
    BY <2>1, <2>2 DEF RowsOf
<1>8. PresentIs(n, path)'
  <2>1. CASE handled' = handled /\ UNCHANGED wizard
    <3>1. \A u \in Users : Steady(u, handled)' => Steady(u, handled)
      <4>1. \A j \in 1..handled : j \in 1..Len(inbox)
        BY <1>3
      <4> QED
        BY <2>1, <4>1 DEF Steady
    <3> QED
      BY <1>2, <2>1, <3>1 DEF ReplayOf, PresentIs
  <2>2. CASE handled' = 0 /\ \A u \in Users : wizard'[u] = None
    BY <1>2, <2>2 DEF ReplayOf, PathOf, PresentIs
  <2> QED
    BY <2>1, <2>2
<1>9. handled' <= n /\ n <= Len(inbox')
  BY <1>3
<1>10. fetched' = 0 \/ n <= fetched'
  BY <1>2, <1>3 DEF ReplayOf
<1>11. ReplayOf(n, path)'
  BY <1>6, <1>7, <1>8, <1>9, <1>10 DEF ReplayOf
<1> QED
  BY <1>11 DEF Replayed

LEMMA HandleReplayed ==
  ASSUME RInv, IInv', HandleNext \/ DropNext PROVE Replayed'
<1>1. PICK i : i = handled + 1
  OBVIOUS
<1>2. handled < fetched /\ i \in 1..Len(inbox)
  <2>1. handled < fetched
    BY DEF HandleNext, DropNext
  <2> QED
    BY <1>1, <2>1 DEF RInv, IInv, InboxInv
<1>3. inbox[i] \in Deliveries
  BY <1>2 DEF RInv, IInv, InboxInv
<1>4. PICK u \in Users : u = inbox[i].user
  BY <1>3 DEF Deliveries
<1>5. PICK x \in Updates : x = inbox[i].update
  BY <1>3 DEF Deliveries
<1>6. BotInv
  BY DEF RInv, IInv
<1>7. CASE HandleNext
  <2>1. HandleUpdate(u, x) /\ Pass(i, SearchFails(u, x))
    BY <1>1, <1>4, <1>5, <1>7 DEF HandleNext
  <2>2. PICK fails \in BOOLEAN : fails = SearchFails(u, x)
    BY DEF SearchFails
  <2>3. Pass(i, fails)
    BY <2>1, <2>2
  <2>4. ~fails /\ x.kind # "pfedit_fix" => wizard'[u] = After(wizard[u], x)
    BY <1>6, <2>1, <2>2, HandlerLeaves
  <2>5. /\ \E r : Changed(u) \subseteq {r}
        /\ NotFix(wizard[u]) \/ x.kind = "pf_del" => Changed(u) \subseteq Writes(wizard[u], x)
    BY <1>6, <2>1, HandlerWrites
  <2>6. \A v \in Users : v # u => wizard'[v] = wizard[v]
    BY <1>6, <2>1, OthersKept
  <2> QED
    BY <1>1, <1>2, <1>4, <1>5, <2>3, <2>4, <2>5, <2>6, PassReplayed
<1>8. CASE DropNext
  <2>1. HandlerFails(u, x) /\ Pass(i, TRUE)
    BY <1>1, <1>4, <1>5, <1>8 DEF DropNext
  <2>2. \A v \in Users : v # u => wizard'[v] = wizard[v]
    BY <1>6, <2>1, OthersKept
  <2> QED
    BY <1>1, <1>2, <1>4, <1>5, <2>1, <2>2, PassReplayed
<1> QED
  BY <1>7, <1>8

LEMMA ReplayedStep == ASSUME RInv, [Next]_vars PROVE Replayed'
<1>1. IInv /\ IInv'
  BY StepKeeps DEF RInv
<1>2. Len(inbox) \in Nat /\ handled \in Nat /\ fetched \in Nat /\ inbox \in Seq(Deliveries)
      /\ handled <= fetched /\ fetched <= Len(inbox)
  BY <1>1 DEF IInv, InboxInv
<1>3. ASSUME NEW u \in Users, NEW x \in Updates, Send(u, x) PROVE Replayed'
  <2> DEFINE d == [user |-> u, update |-> x, tried |-> FALSE, failed |-> FALSE, wrote |-> {}]
  <2>1. inbox' = Append(inbox, d) /\ d.wrote = {} /\ d \in Deliveries
    BY <1>3 DEF Send, Deliveries
  <2> HIDE DEF d
  <2>2. Len(inbox') = Len(inbox) + 1 /\ inbox'[Len(inbox) + 1] = d
        /\ \A j \in 1..Len(inbox) : inbox'[j] = inbox[j]
    BY <1>2, <2>1
  <2>3. \A j \in 1..Len(inbox') : j > Len(inbox) => inbox'[j].wrote = {}
    BY <1>2, <2>1, <2>2
  <2>4. UNCHANGED <<wizard, handled, fetched>>
    BY <1>3 DEF Send
  <2> QED
    BY <1>1, <1>2, <2>2, <2>3, <2>4, LongerReplayed
(* What a poll confirms was the whole replay.                               *)
<1>4. ASSUME handled = fetched, handled > 0, inbox' = SubSeq(inbox, handled + 1, Len(inbox)),
             handled' = 0
      PROVE  Replayed'
  <2>1. PICK n \in Nat : \E path : ReplayOf(n, path)
    BY DEF RInv, Replayed
  <2>2. n = handled /\ \A j \in 1..Len(inbox) : j > handled => inbox[j].wrote = {}
    BY <1>2, <1>4, <2>1 DEF ReplayOf, RowsOf
  <2>3. Len(inbox') = Len(inbox) - handled
        /\ \A j \in 1..(Len(inbox) - handled) : inbox'[j] = inbox[handled + j]
    <3>1. handled + 1 \in 1..Len(inbox) + 1
      BY <1>2
    <3>2. Len(inbox') = Len(inbox) - handled
      BY <1>1, <1>4, RestTyped DEF IInv
    <3> QED
      BY <1>2, <1>4, <3>1, <3>2, SubSeqProperties
  <2>4. \A j \in 1..Len(inbox') : inbox'[j].wrote = {}
    BY <1>2, <2>2, <2>3
  <2> QED
    BY <1>1, <1>4, <2>4, NothingReplayed
<1>5. CASE Poll
  <2>1. CASE handled > 0
    BY <1>4, <1>5, <2>1 DEF Poll
  <2>2. CASE handled = 0
    <3>1. inbox' = inbox
      <4>1. inbox' = SubSeq(inbox, 1, Len(inbox))
        BY <1>5, <2>2 DEF Poll
      <4> QED
        BY <1>2, <4>1
    <3>2. fetched' = Len(inbox) /\ handled' = handled /\ UNCHANGED wizard
      BY <1>2, <1>5, <2>2 DEF Poll, botVars
    <3> QED
      BY <1>1, <1>2, <3>1, <3>2, LongerReplayed
  <2> QED
    BY <1>2, <2>1, <2>2
<1>6. CASE PollFails
  BY <1>4, <1>6 DEF PollFails
<1>7. CASE HandleNext \/ DropNext
  BY <1>1, <1>7, HandleReplayed
<1>8. CASE Restart
  BY <1>1, <1>2, <1>8, LongerReplayed DEF Restart, Forget
<1>9. CASE UNCHANGED vars
  BY <1>1, <1>2, <1>9, LongerReplayed DEF vars
<1> QED
  BY <1>3, <1>5, <1>6, <1>7, <1>8, <1>9 DEF Next

(* telegram_bot.py:118, :166: whatever is delivered again after a restart   *)
(* changes a row to what it changed it to before, however long the inbox,   *)
(* unless a failed handler or search or a fix came between.                 *)
THEOREM ReplaysWriteTheSame == Spec => []ReplayWritesTheSame
<1>1. Init => RInv
  BY InitHolds, NothingAtFirst DEF RInv
<1>2. RInv /\ [Next]_vars => RInv'
  BY StepKeeps, ReplayedStep DEF RInv
<1>3. RInv => ReplayWritesTheSame
  <2> SUFFICES ASSUME RInv, NEW i \in 1..Len(inbox), Repeatable(i)
               PROVE  Cardinality(inbox[i].wrote) <= 1
    BY DEF ReplayWritesTheSame
  <2>1. PICK n \in Nat : \E path : ReplayOf(n, path)
    BY DEF RInv, Replayed
  <2>2. PICK u \in Users : u = inbox[i].user
    <3>1. inbox[i] \in Deliveries
      BY DEF RInv, IInv, InboxInv
    <3> QED
      BY <3>1 DEF Deliveries
  <2>3. \E r : inbox[i].wrote \subseteq {r}
    <3>1. CASE i \in 1..n
      BY <2>1, <2>2, <3>1 DEF Repeatable, Steady, ReplayOf, RowsOf
    <3>2. CASE i > n
      BY <2>1, <3>2 DEF ReplayOf, RowsOf
    <3> QED
      BY <2>1, <3>1, <3>2 DEF RInv, IInv, InboxInv
  <2>4. PICK r : inbox[i].wrote \subseteq {r}
    BY <2>3
  <2>5. IsFiniteSet({r}) /\ Cardinality({r}) = 1
    BY FS_Singleton
  <2>6. Cardinality(inbox[i].wrote) <= Cardinality({r})
    BY <2>4, <2>5, FS_Subset
  <2> QED
    BY <2>5, <2>6
<1> QED
  BY <1>1, <1>2, <1>3, PTL DEF Spec
=============================================================================
