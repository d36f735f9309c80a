--------------------------- MODULE MC_KeeperRequests ---------------------------
(* Model-checking instance of KeeperRequests: Bitcoin, Ethereum and one    *)
(* chain the handlers do not know (MVM), and a request shape for every     *)
(* branch of writeNetworkInfo, verifyBitcoinNetworkInfo and                *)
(* writeAccountPlan: a valid block, fees on both sides of the bounds, a    *)
(* malformed hash, a short extra and a hash naming a block at another      *)
(* height.                                                                 *)
EXTENDS KeeperRequests

CONSTANTS btc, eth, mvm

MCChains == {btc, eth, mvm}

InfoShape(c, form, fee, lie) == [action |-> "info", form |-> form, chain |-> c, fee |-> fee, lie |-> lie]
PlanShape(c, form) == [action |-> "plan", form |-> form, chain |-> c, fee |-> 0, lie |-> FALSE]

MCShapes ==
    { InfoShape(btc, "ok", 10, FALSE), InfoShape(btc, "ok", 1001, FALSE),
      InfoShape(btc, "badhash", 10, FALSE), InfoShape(btc, "short", 10, FALSE),
      InfoShape(btc, "ok", 10, TRUE), InfoShape(eth, "ok", 10, FALSE),
      InfoShape(mvm, "ok", 10, FALSE),
      PlanShape(btc, "ok"), PlanShape(mvm, "ok"), PlanShape(btc, "short") }
=============================================================================
