-------------------------------- MODULE Bot --------------------------------
(***************************************************************************)
(* The conversation of the Telegram bot (src/services/telegram_bot.py)     *)
(* and the portfolio it keeps (src/services/portfolio/service.py).         *)
(*                                                                         *)
(* The bot is one thread that handles one update after the other.  What it *)
(* remembers of a conversation (the wizard that records a purchase or a    *)
(* sale, the questions it has asked) is in memory; holdings are rows of    *)
(* SQLite.  A keyboard once sent stays in the chat, and a long chat has    *)
(* them all, so every button may be pressed at any time.                   *)
(*                                                                         *)
(* A conversation is a private chat, where the chat and the user have the  *)
(* same id.  A text is a number, the name of a fund or something else;     *)
(* an update that only produces a report, an answer of the advisor or a    *)
(* keyboard is "show"; what adds a fund or deletes one by command or by    *)
(* button is one update.  Dates and the present number of units, which the *)
(* wizard asks for and nothing ever uses, are kept as steps without their  *)
(* answers.                                                                *)
(***************************************************************************)
EXTENDS Naturals, FiniteSets

CONSTANTS
  Users,
  Symbols,     \* the funds of the catalog
  Typed,       \* what may be typed after /pf_add, which takes it as one symbol
  Numbers,     \* the numbers a user may type
  None         \* Python's None, and the absence of a wizard or a holding

ASSUME BotAssumption ==
  Numbers \subseteq Nat /\ Symbols \subseteq Typed /\ None \notin Numbers \cup Typed

VARIABLES
  wizard,      \* _pf_wizard: one per user, or None
  searching,   \* _awaiting_fund_search
  holdings     \* the rows of portfolio_items

botVars == <<wizard, searching, holdings>>

Steps == {"symbol", "price", "qty", "date", "current", "confirm"}

Modes == {"add", "buy_more", "sell", "fix"}

Wizards == [step : Steps, symbol : Typed \cup {None}, qty : Numbers \cup {None},
            price : Numbers \cup {None}, mode : Modes]

Holdings == [qty : Numbers, cost : Numbers \cup {None}]

Texts == [kind : {"number"}, number : Numbers] \cup [kind : {"name"}, symbol : Symbols]
           \cup [kind : {"other"}]

Commands == [kind : {"start", "fund_search", "pf_add_prompt", "show"}]
              \cup [kind : {"pf_add"}, symbol : Typed]

Buttons == [kind : {"pf_del", "pfedit_buy", "pfedit_sell", "pfedit_fix"}, symbol : Symbols]
             \cup [kind : {"pfwiz_confirm"}]

Updates == Texts \cup Commands \cup Buttons

-----------------------------------------------------------------------------
(* PortfolioService: one transaction each.                                 *)
(* Operators named X_Fault are faulty variants of X, which no action uses. *)

\* An existing row keeps its cost when none is given.
UpsertHolding(u, s, qty, cost) ==
  LET kept == IF cost = None /\ holdings[u][s] # None THEN holdings[u][s].cost ELSE cost
  IN  holdings' = [holdings EXCEPT ![u][s] = [qty |-> qty, cost |-> kept]]

RemoveHolding_OneUnit(u, s) ==
  LET row == holdings[u][s]
  IN  holdings' = [holdings EXCEPT ![u][s] =
                     IF row = None \/ row.qty <= 1 THEN None ELSE [row EXCEPT !.qty = @ - 1]]

RemoveHolding(u, s) == holdings' = [holdings EXCEPT ![u][s] = None]

-----------------------------------------------------------------------------
(* The wizard. *)

SetWizard(u, w) == wizard' = [wizard EXCEPT ![u] = w] /\ UNCHANGED <<searching, holdings>>

NewWizard(s, mode, qty) ==
  [step |-> IF s = None THEN "symbol" ELSE "price", symbol |-> s, qty |-> qty,
   price |-> None, mode |-> mode]

\* A name the catalog does not have, or has more than once, and a catalog that
\* cannot be loaded, leave the question open.
WizardFundSearch(u, w, t) ==
  \/ t.kind = "name" /\ SetWizard(u, [w EXCEPT !.symbol = t.symbol, !.step = "price"])
  \/ UNCHANGED botVars

\* The wizard was given the name of a fund and still has to ask for it.
SearchFails(u, t) ==
  /\ t.kind = "name" /\ wizard[u] # None /\ wizard[u].step = "symbol"
  /\ wizard'[u] = wizard[u]

IsPositive(t) == t.kind = "number" /\ t.number > 0

AnswerPrice_SkipsUnits(u, w, t) ==
  IsPositive(t) /\ SetWizard(u, [w EXCEPT !.price = t.number, !.step = "date"])

AnswerPrice_Unstored(u, w, t) ==
  IsPositive(t) /\ SetWizard(u, [w EXCEPT !.step = IF w.mode = "fix" THEN "confirm" ELSE "qty"])

AnswerPrice(u, w, t) ==
  /\ IsPositive(t)
  /\ SetWizard(u, [w EXCEPT !.price = t.number,
                            !.step = IF w.mode = "fix" THEN "confirm" ELSE "qty"])

AnswerQty(u, w, t) ==
  IsPositive(t) /\ SetWizard(u, [w EXCEPT !.qty = t.number, !.step = "date"])

AnswerDate(u, w) == SetWizard(u, [w EXCEPT !.step = "current"])

AnswerCurrent(u, w, t) ==
  t.kind = "number" /\ SetWizard(u, [w EXCEPT !.step = "confirm"])

\* An answer that is no number, or not a positive one, is asked for again.
AskAgain(w, t) ==
  /\ \/ w.step \in {"price", "qty"} /\ ~IsPositive(t)
     \/ w.step = "current" /\ t.kind # "number"
  /\ UNCHANGED botVars

HandleWizard(u, w, t) ==
  \/ w.step = "symbol" /\ WizardFundSearch(u, w, t)
  \/ w.step = "price" /\ AnswerPrice(u, w, t)
  \/ w.step = "qty" /\ AnswerQty(u, w, t)
  \/ w.step = "date" /\ AnswerDate(u, w)
  \/ w.step = "current" /\ AnswerCurrent(u, w, t)
  \/ w.step = "confirm" /\ SetWizard(u, None)
  \/ AskAgain(w, t)

\* The wizard is dropped before anything is written, and its step is not looked
\* at.  A number of units that was never given makes the write of a purchase
\* raise; a sale has removed the whole holding by then.
WizardConfirm(u) ==
  LET w == wizard[u] IN
  /\ wizard' = [wizard EXCEPT ![u] = None]
  /\ \/ w # None /\ w.mode = "sell" /\ RemoveHolding(u, w.symbol)
     \/ w # None /\ w.mode # "sell" /\ w.qty # None /\ UpsertHolding(u, w.symbol, w.qty, w.price)
     \/ (w # None => w.mode # "sell" /\ w.qty = None) /\ UNCHANGED holdings
  /\ UNCHANGED searching

-----------------------------------------------------------------------------
(* The handlers of _handle_update. *)

\* A search stays open until it finds one fund.
FundAnalysisInput(u, t) ==
  /\ \/ t.kind = "name" /\ searching' = searching \ {u}
     \/ UNCHANGED searching
  /\ UNCHANGED <<wizard, holdings>>

\* Free text: the wizard comes first.
HandleText(u, t) ==
  \/ wizard[u] # None /\ HandleWizard(u, wizard[u], t)
  \/ wizard[u] = None /\ u \in searching /\ FundAnalysisInput(u, t)
  \/ wizard[u] = None /\ u \notin searching /\ UNCHANGED botVars

\* A fix starts from the number of units the portfolio has now.
StartWizard(u, x) ==
  \/ x.kind = "pf_add_prompt" /\ SetWizard(u, NewWizard(None, "add", None))
  \/ x.kind = "pf_add" /\ SetWizard(u, NewWizard(x.symbol, "add", None))
  \/ x.kind = "pfedit_buy" /\ SetWizard(u, NewWizard(x.symbol, "buy_more", None))
  \/ x.kind = "pfedit_sell" /\ SetWizard(u, NewWizard(x.symbol, "sell", None))
  \/ /\ x.kind = "pfedit_fix"
     /\ IF holdings[u][x.symbol] = None THEN UNCHANGED botVars
        ELSE SetWizard(u, NewWizard(x.symbol, "fix", holdings[u][x.symbol].qty))

RunCommand(u, c) ==
  \/ /\ c.kind = "start"
     /\ wizard' = [wizard EXCEPT ![u] = None]
     /\ searching' = searching \ {u}
     /\ UNCHANGED holdings
  \/ /\ c.kind = "fund_search"
     /\ searching' = searching \cup {u}
     /\ UNCHANGED <<wizard, holdings>>
  \/ c.kind = "show" /\ UNCHANGED botVars

HandleCallback(u, b) ==
  \/ b.kind = "pf_del" /\ RemoveHolding(u, b.symbol) /\ UNCHANGED <<wizard, searching>>
  \/ b.kind = "pfwiz_confirm" /\ WizardConfirm(u)

HandleUpdate(u, x) ==
  \/ x \in Texts /\ HandleText(u, x)
  \/ StartWizard(u, x)
  \/ RunCommand(u, x)
  \/ HandleCallback(u, x)

\* A handler whose database call raises leaves the rows as they are; the
\* confirm handler may have dropped its wizard by then, or not (ensure_user
\* raised before).
HandlerFails(u, x) ==
  /\ \/ UNCHANGED wizard
     \/ x.kind = "pfwiz_confirm" /\ wizard' = [wizard EXCEPT ![u] = None]
  /\ UNCHANGED <<searching, holdings>>

Forget ==
  /\ wizard' = [u \in Users |-> None]
  /\ searching' = {}
  /\ UNCHANGED holdings

BotInit ==
  /\ wizard = [u \in Users |-> None]
  /\ searching = {}
  /\ holdings = [u \in Users |-> [s \in Typed |-> None]]
=============================================================================
