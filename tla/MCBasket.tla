------------------------------ MODULE MCBasket -------------------------------
(***************************************************************************)
(* Basket for TLC: Discount seeds a coupon for one product.                *)
(***************************************************************************)
EXTENDS Basket

CONSTANT Seeded   \* the product with a coupon

SeedCoupons == [p \in Products |-> IF p = Seeded THEN Amounts ELSE {}]
===============================================================================
