------------------------------- MODULE Statuses -------------------------------
(***************************************************************************)
(* The statuses of the unified domain and the tables that lead to them     *)
(* from each marketplace's own (domain/status.ts).  A raw status that no   *)
(* table has, or of a marketplace without a table, is UNKNOWN.  The raw    *)
(* statuses of a GS Shop sheet are Korean words, named here in English.    *)
(***************************************************************************)
UnifiedOrderStatus ==
  {"PENDING", "PAID", "DISPATCHED", "DELIVERED", "CONFIRMED", "CANCELLED",
   "RETURNED", "EXCHANGED", "MIXED", "UNKNOWN"}

NaverOrderStatus ==
  [PAYMENT_WAITING |-> "PENDING", PAYED |-> "PAID", DELIVERING |-> "DISPATCHED",
   DELIVERED |-> "DELIVERED", PURCHASE_DECIDED |-> "CONFIRMED",
   CANCELED |-> "CANCELLED", CANCELED_BY_NOPAYMENT |-> "CANCELLED",
   RETURNED |-> "RETURNED", EXCHANGED |-> "EXCHANGED", MIXED |-> "MIXED"]

EsmOrderStatus ==
  [code \in {"1", "2", "3", "4", "5"} |->
     CASE code = "1" -> "PENDING" [] code = "2" -> "PAID" [] code = "3" -> "DISPATCHED"
       [] code = "4" -> "DELIVERED" [] code = "5" -> "CONFIRMED"]

CoupangOrderStatus ==
  [ACCEPT |-> "PAID", INSTRUCT |-> "PAID", DEPARTURE |-> "DISPATCHED",
   DELIVERING |-> "DISPATCHED", FINAL_DELIVERY |-> "DELIVERED",
   NONE_TRACKING |-> "DELIVERED"]

GsShopOrderStatus ==
  [unpaid |-> "PENDING", paid |-> "PAID", preparing |-> "PAID",
   shipping |-> "DISPATCHED", shipped |-> "DELIVERED", decided |-> "CONFIRMED",
   cancelled |-> "CANCELLED", returned |-> "RETURNED",
   exchanged |-> "EXCHANGED", MIXED |-> "MIXED"]

OrderStatusByMarketplace ==
  [naver_smartstore |-> NaverOrderStatus, coupang |-> CoupangOrderStatus,
   esm_2_0 |-> EsmOrderStatus, gsshop |-> GsShopOrderStatus]

ToUnifiedOrderStatus(marketplace, raw) ==
  IF /\ marketplace \in DOMAIN OrderStatusByMarketplace
     /\ raw \in DOMAIN OrderStatusByMarketplace[marketplace]
    THEN OrderStatusByMarketplace[marketplace][raw] ELSE "UNKNOWN"
===============================================================================
