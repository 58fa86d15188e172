\* The retry pass runs for ever, and no delivery that failed is tried again.
SPECIFICATION NotificationsFairSpec
CONSTANTS
    Messages = {m1}
    Endpoints = {e1, e2}
    MaxAttempts = 5
PROPERTIES
    FailedIsRetried
