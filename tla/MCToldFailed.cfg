SPECIFICATION ClientSpec
CONSTANTS
    b1 = b1
    f1 = f1
    Pages = {b1}
    Calls = {f1}
    PageOf <- OneTab
    Functions = {"list", "scim_delete_user"}
    MaxKeys = 1
    MaxRefusals = 0
CHECK_DEADLOCK FALSE
INVARIANTS
    SuccessIsTold
