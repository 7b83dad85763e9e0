SPECIFICATION MCSpec
CONSTANTS
  Files = {1, 2}
  Uploads = {1}
  Retries = 1
  MaxFaults = 2
  MaxAdds = 1
  DocumentUploads = {first, second}
  Size = 2
  MaxDocumentFaults = 2
  MaxCrashes = 1
INVARIANTS
  KeptUntilIngested
  AtMostOnceMorePerFault
PROPERTIES
  EveryFileLeaves
  EveryDocumentSettles
  DocumentsLiveOnce
CHECK_DEADLOCK FALSE
