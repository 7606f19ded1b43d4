-------------------------------- MODULE Orders --------------------------------
(* The ids by which secrets and journal entries name an order.              *)
CONSTANTS
  Order,        \* ids of orders
  NoOrder       \* the order_id 0 of what names none
=============================================================================
