CONSTANTS
  None = None
  Order <- MCOrder
  Click <- MCClick
  Form <- MCForm
  MaxUpset = 1
  MaxLag = 1
  MaxActs = 3
SPECIFICATION Spec
CHECK_DEADLOCK FALSE
INVARIANT SuccessNamesPaid
PROPERTIES NoticeEndsLateOrder PaidIsTold LateFormGoes
