\* Three request threads and the main thread on one session and one shared service.
CONSTANTS
    Service = {own, shared1, shared2}
    Own = own
    NoService = NoService
    Thread = {t1, t2, t3, main}
    Main = main
    NoThread = NoThread
    Device = {cpu, gpu}
    NoPipeline = NoPipeline
    Artifact <- OneDefect
SPECIFICATION FairSpec
INVARIANTS TypeOK AdmittedIsServed ClosedIsReleased OneSharedService
PROPERTIES EveryCallReturns
