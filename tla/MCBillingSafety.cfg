CONSTANTS
  t = t
  s = s
  None = None
  TopUps = {t}
  Subscriptions = {s}
  Attempts = {a1, a2, b1, b2}
  TopUpPayments = {a1, a2}
  OrderOf <- MCOrderOf
  Endpoints = {"topupWebhook", "subscriptionWebhook"}
  Subscribed = {"payment.authorized", "payment.captured", "payment.failed"}
  Requests = {r1, r2}
SPECIFICATION Spec
SYMMETRY Symmetry
ACTION_CONSTRAINT Unheard
CONSTRAINT OneOrder
INVARIANT TypeOK
INVARIANT GrantedOnce
PROPERTY PaymentServiceSpec
INVARIANT GrantWasPaid
INVARIANT LoggedIsGranted
