CONSTANTS
  t = t
  s = s
  None = None
  TopUps = {}
  Subscriptions = {s}
  Attempts = {b}
  TopUpPayments = {}
  OrderOf <- MCOrderOf
  Endpoints = {"subscriptionWebhook"}
  Subscribed = {"payment.captured"}
  Requests = {r1, r2}
SPECIFICATION LiveSpec
PROPERTY SubscriptionIsActivated
