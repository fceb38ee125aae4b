----------------------------- MODULE MCFundData -----------------------------
EXTENDS FundData, TLC

MCOwner == 1 :> "bond" @@ 2 :> "gold" @@ 3 :> "gold"

MCFirstList == "gold" :> 2 @@ "bond" :> Absent

MCFirstDay == "gold" :> 1 @@ "bond" :> 2
=============================================================================
