CONSTANTS
  t = t
  s = s
  None = None
  TopUps = {t}
  Subscriptions = {}
  Attempts = {a}
  TopUpPayments = {a}
  OrderOf <- MCOrderOf
  Endpoints = {"topupWebhook"}
  Subscribed = {"payment.authorized", "payment.captured", "payment.failed"}
  Requests = {r1, r2}
SPECIFICATION Spec
PROPERTY DuplicateWasGranted
