SPECIFICATION Spec
CONSTANT MaxMessages = 2
PROPERTY DeliveryReturns
CHECK_DEADLOCK FALSE
