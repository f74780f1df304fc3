\* Three clients, of whom one leaves and two stay to the end.
SPECIFICATION Spec
CONSTANTS
  ann = ann
  ben = ben
  cho = cho
  Clients = {ann, ben, cho}
  Leavers = {cho}
  MaxPublish = 2
  MaxRooms = 2
  Nobody = Nobody
INVARIANT UpstreamsUsable
 
CHECK_DEADLOCK FALSE
