--------------------------- MODULE MCWebhookDelivery ---------------------------
EXTENDS WebhookDelivery

CONSTANTS h1, d1
OneHook == {h1}
OneId == {d1}
\* More runs than any instance starts: TLC cannot enumerate Nat (Runs in Verdicts).
SmallNat == 0 .. 4
=============================================================================
