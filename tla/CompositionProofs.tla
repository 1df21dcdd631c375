-------------------------- MODULE CompositionProofs --------------------------
(***************************************************************************)
(* The services side by side: a behaviour of all of them is a behaviour of *)
(* each, so that what the proofs show of one holds of it among the others. *)
(***************************************************************************)
EXTENDS Services, GeocodeProofs, ServiceProofs, DatabaseProofs

\* A step of the services is a step of one and leaves the variables of the others alone.
LEMMA OneAtWork ==
    ASSUME [ServicesNext]_servicesVars
    PROVE  /\ [GeoNext]_geoVars /\ [RateNext]_rateVars /\ [MailNext]_mailVars /\ [DbNext]_dbVars /\ [TrkNext]_trkVars
           /\ [LogNext]_logVars /\ [PreNext]_preVars /\ [ShNext]_<<sesVars, shellVars>> /\ [UsbNext]_usbVars
           /\ [RepNext]_repVars /\ UNCHANGED subject
<1>1. CASE UNCHANGED servicesVars
  BY <1>1 DEF servicesVars
<1>2. CASE Only("geocode") /\ GeoNext
  BY <1>2 DEF Only
<1>3. CASE Only("ratelimit") /\ RateNext
  BY <1>3 DEF Only
<1>4. CASE Only("mail") /\ MailNext
  BY <1>4 DEF Only
<1>5. CASE Only("database") /\ DbNext
  BY <1>5 DEF Only
<1>6. CASE Only("tracker") /\ TrkNext
  BY <1>6 DEF Only
<1>7. CASE Only("logger") /\ LogNext
  BY <1>7 DEF Only
<1>8. CASE Only("presets") /\ PreNext
  BY <1>8 DEF Only
<1>9. CASE Only("shell") /\ ShNext
  BY <1>9 DEF Only
<1>10. CASE Only("usb") /\ UsbNext
  BY <1>10 DEF Only
<1>11. CASE Only("report") /\ RepNext
  BY <1>11 DEF Only
<1> QED BY <1>1, <1>2, <1>3, <1>4, <1>5, <1>6, <1>7, <1>8, <1>9, <1>10, <1>11 DEF ServicesNext

\* The services implement the specification of each of them: what one does is what it does alone
\* (the threads of g7ctrl share nothing between these services but what each models itself).
THEOREM ServicesAreThemselves ==
    ServicesSpec => /\ GeoSpec /\ RateSpec /\ MailSpec /\ DbSpec /\ TrkSpec
                    /\ LogSpec /\ PreSpec /\ ShSpec /\ UsbSpec /\ RepSpec
<1>1. ServicesInit => /\ GeoInit /\ RateInit /\ MailInit /\ DbInit /\ TrkInit
                      /\ LogInit /\ PreInit /\ ShInit /\ UsbInit /\ RepInit
  BY DEF ServicesInit
<1>2. [ServicesNext]_servicesVars =>
         /\ [GeoNext]_geoVars /\ [RateNext]_rateVars /\ [MailNext]_mailVars /\ [DbNext]_dbVars /\ [TrkNext]_trkVars
         /\ [LogNext]_logVars /\ [PreNext]_preVars /\ [ShNext]_<<sesVars, shellVars>> /\ [UsbNext]_usbVars
         /\ [RepNext]_repVars
  BY OneAtWork
<1> QED BY <1>1, <1>2, PTL
        DEF ServicesSpec, GeoSpec, RateSpec, MailSpec, DbSpec, TrkSpec, LogSpec, PreSpec, ShSpec, UsbSpec, RepSpec

\* Every variable of the service at work keeps its type.
THEOREM ServicesTypes == ServicesSpec => []ServicesTypeOK
<1> DEFINE Whose == subject \in Subjects
<1>1. ServicesSpec => []Whose
  <2>1. ServicesInit => Whose
    BY DEF ServicesInit
  <2>2. Whose /\ [ServicesNext]_servicesVars => Whose'
    BY OneAtWork
  <2> QED BY <2>1, <2>2, PTL DEF ServicesSpec
<1>2. ServicesSpec => /\ []GeoTypeOK /\ []RateTypeOK /\ []MailTypeOK /\ []DbTypeOK /\ []TrkTypeOK
                      /\ []LogTypeOK /\ []PreTypeOK /\ []SesTypeOK /\ []UsbTypeOK /\ []RepTypeOK
  BY ServicesAreThemselves, GeoTypeCorrect, RateTypeCorrect, MailTypes, DatabaseTypes, TrackerTypes, LogTypeCorrect,
     PresetTypes, ShellTypeCorrect, UsbTypeCorrect, ReportTypes, PTL
<1>3. /\ Whose /\ GeoTypeOK /\ RateTypeOK /\ MailTypeOK /\ DbTypeOK /\ TrkTypeOK
      /\ LogTypeOK /\ PreTypeOK /\ SesTypeOK /\ UsbTypeOK /\ RepTypeOK
      => ServicesTypeOK
  BY DEF ServicesTypeOK
<1> QED BY <1>1, <1>2, <1>3, PTL

\* What the services promise one by one, they promise side by side: geocoding and its limits, mails,
\* the database and its downloads, the packages of a tracker, the log, presets, sessions and reports.
THEOREM ServicesAreSafe ==
    ServicesSpec => [](/\ CalmAnswerIsNear /\ BooksAgree /\ AloneIsPolite /\ MailIsHonest /\ StoreIsHonest
                       /\ AloneIsExact /\ HandledInOrder /\ SeamlessLosesNothing /\ LogIsWhole /\ PresetRunsItself
                       /\ InStep /\ SentIsWellFormed /\ DownloadIsWhole /\ ReportIsOwn)
<1>1. ServicesSpec => /\ []CalmAnswerIsNear /\ []BooksAgree /\ []AloneIsPolite
  BY ServicesAreThemselves, AnswersAreNear, BooksAlwaysAgree, PoliteAlone
<1>2. ServicesSpec => /\ []MailIsHonest /\ []StoreIsHonest /\ []AloneIsExact /\ []DownloadIsWhole
  BY ServicesAreThemselves, MailsAreHonest, HonestStores, AloneExact, DownloadsAreWhole
<1>3. ServicesSpec => /\ []HandledInOrder /\ []SeamlessLosesNothing /\ []LogIsWhole /\ []PresetRunsItself
  BY ServicesAreThemselves, ReportsInOrder, NothingIsLost, LogWhole, PresetsRunThemselves
<1>4. ServicesSpec => /\ []InStep /\ []SentIsWellFormed /\ []ReportIsOwn
  BY ServicesAreThemselves, ShellInStep, CommandsAreWellFormed, ReportsAreOwn
<1> QED BY <1>1, <1>2, <1>3, <1>4, PTL
=============================================================================
