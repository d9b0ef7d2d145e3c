CONSTANTS
  Blank = Blank
  Bad = Bad
  DefaultFile = DefaultFile
  DefaultKey = DefaultKey
  DefaultGrpc = DefaultGrpc
  DefaultHttp = DefaultHttp
  DefaultHttps = DefaultHttps
  fromFlag = fromFlag
  fromVar = fromVar
  fromFile = fromFile
  fileDefault = fileDefault
  path1 = path1
  path2 = path2
  Strings = {DefaultFile, DefaultKey, DefaultGrpc, DefaultHttp, DefaultHttps, fromFlag, fromVar, fromFile, fileDefault, path1, path2}
  Paths = {path1, path2}
  Inputs <- MCInputs
SPECIFICATION Spec
INVARIANTS TypeOK Precedence OneStoreUnlessAsked LinksReachTheServer ServesIffAble
CHECK_DEADLOCK FALSE
