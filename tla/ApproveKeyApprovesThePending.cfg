SPECIFICATION Spec
CONSTANT MaxRequests = 3
PROPERTY ApproveKeyApprovesThePending
CHECK_DEADLOCK FALSE
